---------------------------- MODULE Spec2Model ----------------------------
(***************************************************************************)
(* Teach-and-replay controller for a four-joint arm (RobotRecorder).       *)
(*                                                                         *)
(* Numbers.  The program computes with floats.  Every quantity that takes  *)
(* part in a joint move is a multiple of 1/(255*128) degree: a trigger     *)
(* level is state/255, a joystick level is stateX/128, both are multiplied *)
(* by an integer speed.  The model therefore keeps angles and deltas as    *)
(* integers counting units of 1/Scale degree (fixed point, Scale =         *)
(* 255*128); float rounding is not modelled.                               *)
(*                                                                         *)
(* Names.  robot_interface.py still uses the former member names           *)
(* MemoryType.POINT / MemoryType.MOVEMENT for what utils.py calls          *)
(* ABSOLUTE / RELATIVE; the model reads them as the same two members.      *)
(***************************************************************************)
EXTENDS Integers, Sequences, FiniteSets, TLC

(***************************************************************************)
(* Program constants                                                       *)
(***************************************************************************)
number_of_joints == 4
TriggerMax == 255
JoystickMax == 128
InputThreshold == 5
TicksPerRefresh == 10
DefaultLinearSpeed == 5
ConnectRetries == 10

Scale == TriggerMax * JoystickMax
Deg(x) == x * Scale
\* the dead zone of move_robot, 0.5 degree, in units of 1/Scale degree
DeadZoneTwice == Scale

Joints == 1..number_of_joints
max_speed == <<5, 5, 5, 15>>
joint_lo == <<Deg(-80), Deg(-125), Deg(85), Deg(-355)>>
joint_hi == <<Deg(80), Deg(125), Deg(245), Deg(355)>>
\* joystick_mapping, as 1-based joint indices (left_joystick_joint = 0, right = 1)
joystick_left == 1
joystick_right == 2

ZeroVec == [j \in Joints |-> 0]

(***************************************************************************)
(* Bounds of the model                                                     *)
(***************************************************************************)
MaxMem == 3
MaxTickMoves == 1
MaxBundles == 2
MaxReplays == 1
MaxEdges == 1
MaxFeed == 12
MaxFaults == 1
MaxInputs == 2
MaxCycles == 4
MaxLoads == 2
MaxStops == 1
MaxToggles == 3
MaxSwitches == 2
MaxClears == 1

(***************************************************************************)
(* Vector helpers (numpy on 4-vectors)                                     *)
(***************************************************************************)
Abs(x) == IF x < 0 THEN -x ELSE x
Sign(x) == IF x < 0 THEN -1 ELSE IF x > 0 THEN 1 ELSE 0
VecAdd(a, b) == [j \in DOMAIN a |-> a[j] + b[j]]
VecSub(a, b) == [j \in DOMAIN a |-> a[j] - b[j]]
VecSign(a) == [j \in DOMAIN a |-> Sign(a[j])]
VecAny(a) == \E j \in DOMAIN a : a[j] # 0
RECURSIVE SumUpTo(_, _)
SumUpTo(a, n) == IF n = 0 THEN 0 ELSE a[n] + SumUpTo(a, n - 1)
VecSum(a) == SumUpTo(a, Len(a))

\* np.clip(x, lo, hi) = minimum(maximum(x, lo), hi)
Clip(x, lo, hi) == IF x < lo THEN lo ELSE IF x > hi THEN hi ELSE x


(***************************************************************************)
(* Python values.  A field of a memory entry can hold a value of another   *)
(* Python type than the one it is declared with, and the program's         *)
(* comparisons behave differently on each type.  The model keeps the types *)
(* apart by shape: a member of MotionType is the 1-tuple of its name, an   *)
(* ndarray the tuple of its items (4 numbers, or the rows of an            *)
(* end-effector array), a Python list of 4 numbers the tuple of "list"     *)
(* and its items.                                                          *)
(***************************************************************************)
JOINT == <<"JOINT">>
LINEAR == <<"LINEAR">>
GRIPPER == <<"GRIPPER">>
\* MotionType.SUCTION_CUP, the kind suction_cup_func records
SUCTION_CUP == <<"SUCTION_CUP">>
IsMotionType(v) == Len(v) = 1
PyList(v) == <<"list">> \o v
IsList(v) == Len(v) = number_of_joints + 1
IsNdarray(v) == ~IsMotionType(v) /\ ~IsList(v)

(***************************************************************************)
(* Memory entries: the dataclass utils.MemoryEntry, whose fields are, in   *)
(* this order, type, value, motion_type, valid (default True)              *)
(***************************************************************************)
MemoryEntry(t, v, m) == [type |-> t, value |-> v, motion_type |-> m, valid |-> TRUE]

(***************************************************************************)
(* RobotRecorder.bound_movement: clip(current + movement) - current        *)
(***************************************************************************)
BoundMovementUnclipped(current_angles, movement) == movement
BoundMovementAbsolute(current_angles, movement) ==
    [j \in Joints |-> Clip(current_angles[j] + movement[j], joint_lo[j], joint_hi[j])]
BoundMovement(current_angles, movement) ==
    [j \in Joints |->
        Clip(current_angles[j] + movement[j], joint_lo[j], joint_hi[j])
            - current_angles[j]]

(***************************************************************************)
(* RobotRecorder.move_robot, its arithmetic                                *)
(***************************************************************************)
\* the delta computed from the controller buffer; aj is active_joint (0-based)
IntendedMovement(buf, aj) ==
    LET m0 == [ZeroVec EXCEPT ![aj + 1] =
                   (buf.joint_pos - buf.joint_neg) * max_speed[aj + 1]]
        m1 == [m0 EXCEPT ![joystick_left] =
                   @ + buf.left_joystick * max_speed[joystick_left]]
    IN  [m1 EXCEPT ![joystick_right] =
                   @ + buf.right_joystick * max_speed[joystick_right]]

\* np.where(np.abs(movement) < 0.5, 0, movement)
DeadZoneOff(movement) == movement
DeadZone(movement) ==
    [j \in Joints |-> IF 2 * Abs(movement[j]) < DeadZoneTwice THEN 0 ELSE movement[j]]

\* the condition under which a successful tick records its move
TickRecordsAlways(md, movement) == md = "RELATIVE"
TickRecords(md, movement) == md = "RELATIVE" /\ Abs(VecSum(movement)) > 0

(***************************************************************************)
(* default_keymap: what the trigger and joystick callbacks store           *)
(***************************************************************************)
\* button2_recording_func: state/255 when state > 5, else 0 (scaled by Scale)
TriggerLevel(state) == IF state > InputThreshold THEN state * JoystickMax ELSE 0
\* joystick_recording_func: stateX/128 when |stateX| > 5, else 0 (scaled by Scale)
JoystickLevel(stateX) == IF Abs(stateX) > InputThreshold THEN stateX * TriggerMax ELSE 0

(***************************************************************************)
(* RobotRecorder.optimize_relative_movement                                *)
(***************************************************************************)
\* the merge condition: entry against the last group built so far
\* the exception the merge condition ends with, or "none": == on an ndarray
\* gives an array, whose truth value is ambiguous (ValueError); np.sign of a
\* member of MotionType is a TypeError
MergeError(entry, last) ==
    IF ~(entry.type = last.type /\ last.type = "RELATIVE") THEN "none"
    ELSE IF IsNdarray(entry.motion_type) \/ IsNdarray(last.motion_type)
    THEN "ValueError"
    ELSE IF entry.motion_type = last.motion_type
            /\ (IsMotionType(entry.value) \/ IsMotionType(last.value))
    THEN "TypeError"
    ELSE "none"
Mergeable(entry, last) ==
    /\ MergeError(entry, last) = "none"
    /\ entry.type = last.type
    /\ last.type = "RELATIVE"
    /\ entry.motion_type = last.motion_type
    /\ VecSign(entry.value) = VecSign(last.value)

\* the merged group: values summed, valid cleared when the entry is invalid
MergeKeepsValid(last, entry) ==
    [last EXCEPT !.value = VecAdd(last.value, entry.value)]
Merge(last, entry) ==
    [last EXCEPT !.value = VecAdd(last.value, entry.value),
                 !.valid = IF ~entry.valid THEN FALSE ELSE @]

\* the pass so far: optimized_memory, for each of its entries the place in mem
\* of the object it is (the first entry of its group), and the exception that
\* ended the pass
RECURSIVE OptimizeFrom(_, _, _)
OptimizeFrom(mem, i, pass) ==
    IF i > Len(mem) THEN pass
    ELSE LET n == Len(pass.optimized_memory)
             last == pass.optimized_memory[n]
         IN  IF MergeError(mem[i], last) # "none"
             THEN [pass EXCEPT !.raised = MergeError(mem[i], last)]
             ELSE IF Mergeable(mem[i], last)
             THEN OptimizeFrom(mem, i + 1,
                      [pass EXCEPT !.optimized_memory[n] = Merge(last, mem[i])])
             ELSE OptimizeFrom(mem, i + 1,
                      [pass EXCEPT !.optimized_memory = Append(@, mem[i]),
                                   !.heads = Append(@, i)])

\* defined for a memory of one or more entries (memory[0] raises on an empty one)
OptimizePass(mem) ==
    OptimizeFrom(mem, 2, [optimized_memory |-> <<mem[1]>>, heads |-> <<1>>,
                          raised |-> "none"])
OptimizeRelativeMovement(mem) == OptimizePass(mem).optimized_memory

\* a pass that an exception ended has assigned nothing to self.memory, but it
\* has merged in place: the first entry of a group is the object the memory
\* holds, and its value and valid flag were assigned
MergedInPlace(mem, snap, pass) ==
    [j \in DOMAIN mem |->
        IF j <= Len(snap) /\ mem[j] = snap[j]
              /\ \E k \in DOMAIN pass.heads : pass.heads[k] = j
        THEN pass.optimized_memory[CHOOSE k \in DOMAIN pass.heads : pass.heads[k] = j]
        ELSE mem[j]]


(***************************************************************************)
(* State                                                                   *)
(***************************************************************************)
VARIABLES
    running,            \* RobotRecorder.running
    mode,               \* RobotRecorder.mode: "ABSOLUTE" | "RELATIVE"
    active_joint,       \* RobotRecorder.active_joint, 0-based
    controller_buffer,  \* RobotRecorder.controller_buffer, levels scaled by Scale
    memory,             \* RobotRecorder.memory
    arm_angles,         \* the arm's joint angles
    arm_error,          \* the arm's error register holds an error
    link_up,            \* the two sockets to the arm (_dashboard, _move) are open
    dashboard_lock,     \* RobotInterface.dashboard_lock: "free" or the holder
    ctl,                \* the control threads (Thread.run), by thread
    handler,            \* the handler threads: "cb", the controller's dispatcher
                        \* thread, and "dash", the dashboard's worker thread
    feed,               \* RobotRecorder.feed: the lines add_feed has appended
    recordings,         \* the file ./recordings/memory.json: NoFile or its entries
    controller,         \* ControllerInterface.controller: the pydualsense device
    end_effector,       \* RobotInterface.end_effector and end_effector_state,
                        \* and the hardware actions issued
    sent,               \* history: the motion commands sent to the arm
    audit               \* history: counts of what the memory operations did

vars == <<running, mode, active_joint, controller_buffer, memory, arm_angles,
          arm_error, link_up, dashboard_lock, ctl, handler, feed, recordings,
          controller, end_effector, sent, audit>>

recorder_vars == <<running, mode, active_joint, controller_buffer, memory>>
arm_vars == <<arm_angles, arm_error, link_up>>

CtlIds == {"ctl1", "ctl2"}
HandlerIds == {"cb", "dash"}

BufferZero == [joint_pos |-> 0, joint_neg |-> 0, left_joystick |-> 0,
               right_joystick |-> 0]
CtlUnborn == [pc |-> "unborn", k |-> 0, seen |-> BufferZero, n0 |-> 0,
              intended |-> ZeroVec, read_failed |-> FALSE,
              current_angles |-> ZeroVec, bounded |-> ZeroVec, movement |-> ZeroVec]
HandlerIdle == [pc |-> "idle", op |-> "none", i |-> 0, func |-> "unbound",
                arg |-> ZeroVec, result |-> TRUE, snap |-> <<>>, base |-> 0]
AuditZero == [loaded |-> 0, appended |-> 0, deleted |-> 0, merged |-> 0,
              bundles |-> 0, replays |-> 0, edges |-> 0, raised |-> "none",
              callbacks |-> 0, inputs |-> BufferZero, unpolled |-> 0,
              cycled |-> <<>>, loads |-> 0, notfound |-> 0,
              current |-> "ctl1", stops |-> 0, switches |-> 0, clears |-> 0]

\* the slots of a Keymap, in the order of the dataclass's fields (the order
\* in which set_controls walks keymap.__dict__)
KeymapFields ==
    << "cross_pressed", "square_pressed", "triangle_pressed", "circle_pressed",
       "r1_changed", "l1_changed", "r2_changed", "l2_changed",
       "left_joystick_changed", "right_joystick_changed",
       "dpad_up", "dpad_down", "dpad_left", "dpad_right" >>
Slot(key) == CHOOSE k \in DOMAIN KeymapFields : KeymapFields[k] = key

\* the Keymap object default_keymap builds: version counts the calls of
\* default_keymap (every call makes new closures), circle is the end effector
\* whose function circle_pressed is bound to
DefaultKeymap(version, kind) == [version |-> version, circle |-> kind]
\* an event of a new pydualsense handle: no callback
NoCallback == [version |-> 0, circle |-> "none"]
\* every slot of the handle holds its callback of keymap km
Installed(km) == [k \in DOMAIN KeymapFields |-> km]

\* the controller of a recorder constructed with end effector kind:
\* connect_controller has seen it report its state, set_controls has
\* installed the keymap, the microphone LED is as the device starts it (off),
\* and indicate_active_joint has lit the light bar in the active joint's colour
ControllerFor(kind) ==
    [states |-> TRUE, open |-> TRUE, mic_led |-> FALSE,
     light |-> number_of_joints \div 2,
     keymap |-> DefaultKeymap(1, kind),
     installed |-> Installed(DefaultKeymap(1, kind))]
ConnectedController == ControllerFor("NO_END_EFFECTOR")

\* the end effector a recorder constructed with the defaults has: none
NoEndEffector == [kind |-> "NO_END_EFFECTOR", state |-> 0, actions |-> <<>>]

\* the recordings file before the first dump
NoFile == [exists |-> FALSE, parses |-> FALSE, entries |-> <<>>]

\* RobotRecorder.add_feed(msg, source): one FeedEntry appended to the feed (the
\* timestamp is left out); log_robot is add_feed with the robot as source
FeedEntry(message, source) == [message |-> message, source |-> source]
AddFeedCleared(f, msg, source) == <<FeedEntry(msg, source)>>
AddFeed(f, msg, source) == Append(f, FeedEntry(msg, source))
LogRobot(f, msg) == AddFeed(f, msg, "Robot")
\* the lines that report a failed exchange with the arm
FaultLines == {"Error getting angles", "Error getting pose", "Connection aborted",
               "Error extracting error codes", "Error getting error id"}
Faults(f) == Cardinality({i \in DOMAIN f : f[i].message \in FaultLines})
\* an exchange with the arm can fail while the link is up: at most MaxFaults
\* such failures are explored (with the link down every exchange fails)
MayFail == link_up => Faults(feed) < MaxFaults

\* the feed after construction (connect_robot) and after start()
ConstructedFeed == LogRobot(LogRobot(<<>>, "Connecting"), "Connection successful")
StartedFeed == AddFeed(ConstructedFeed, "Started recording", "Recorder")

\* RobotRecorder.save(memory_type, motion_type, value): one entry appended to
\* the memory.  The arguments go to the dataclass by position, so motion_type
\* lands in the field value and value in the field motion_type.
Save(mem, memory_type, motion_type, value) ==
    Append(mem, MemoryEntry(memory_type, motion_type, value))

(***************************************************************************)
(* The control thread: RobotRecorder.run and move_robot, one action per    *)
(* step between two places where another thread can act.                   *)
(*   loop         while self.running                                       *)
(*   tick         move_robot reads controller_buffer["joint_pos"]          *)
(*   read_neg, read_left, read_right                                       *)
(*                it reads "joint_neg", "left_joystick", "right_joystick"  *)
(*   angles_wait  bound_movement waits for dashboard_lock (self.angles)    *)
(*   angles_read  GetAngle is out, the lock is held                        *)
(*   decide       the bounded, dead-zoned vector is computed: np.any       *)
(*   send         the vector is not all zero: RelMovJ is about to be sent  *)
(*   sync         RelMovJ is sent, Sync has not returned                   *)
(*   pose_wait, pose_read, dangles_wait, dangles_read                      *)
(*                the display refresh: self.pose, then self.angles         *)
(*   dead         run has returned;  crashed: an exception ended run       *)
(***************************************************************************)
\* the place after a finished tick: the next of the 10 ticks, or the refresh
\* (move_robot has returned: its local variables are gone)
AfterTick(c) ==
    IF c.k + 1 < TicksPerRefresh
    THEN [CtlUnborn EXCEPT !.pc = "tick", !.k = c.k + 1]
    ELSE [CtlUnborn EXCEPT !.pc = "pose_wait", !.k = 0]

\* what a telemetry property returns: the parsed reply, or zeros on a failure
TelemetryOutcomes == {"ok", "zeros"}

\* the value move_robot hands to save
RecordedMovement(c) == c.movement

\* the joint moves the control threads have sent so far
TickMovesSent == Cardinality({i \in DOMAIN sent : sent[i].by \in CtlIds})

\* while self.running: the only place where run looks at the flag
LoopContinuesAlways(flag) == TRUE
LoopContinues(flag) == flag

CtlLoop(t) ==
    /\ ctl[t].pc = "loop"
    /\ ctl' = [ctl EXCEPT ![t] = IF LoopContinues(running) THEN [@ EXCEPT !.pc = "tick", !.k = 0]
                                 ELSE [@ EXCEPT !.pc = "dead"]]
    /\ UNCHANGED <<recorder_vars, arm_vars, dashboard_lock, handler, sent, audit, feed, recordings,
                   controller, end_effector>>

\* the field of the buffer each place reads, and the place that follows
FieldRead(pc) ==
    CASE pc = "tick" -> "joint_pos" [] pc = "read_neg" -> "joint_neg"
      [] pc = "read_left" -> "left_joystick" [] pc = "read_right" -> "right_joystick"
AfterRead(pc) ==
    CASE pc = "tick" -> "read_neg" [] pc = "read_neg" -> "read_left"
      [] pc = "read_left" -> "read_right" [] pc = "read_right" -> "angles_wait"

\* self.controller_buffer[key], read into the tick's expression
ReadFieldOnce(buf, seen, key) == IF key = "joint_pos" THEN buf ELSE seen
ReadField(buf, seen, key) == [seen EXCEPT ![key] = buf[key]]

\* one dict lookup of move_robot; after the last the delta is complete
CtlTick(t) ==
    /\ ctl[t].pc \in {"tick", "read_neg", "read_left", "read_right"}
    /\ LET key == FieldRead(ctl[t].pc)
           seen == ReadField(controller_buffer, ctl[t].seen, key)
       IN  ctl' = [ctl EXCEPT ![t] =
                     [@ EXCEPT !.pc = AfterRead(@),
                               !.seen = seen,
                               !.n0 = IF ctl[t].pc = "tick" THEN audit.callbacks ELSE @,
                               !.intended = IF ctl[t].pc = "read_right"
                                            THEN IntendedMovement(seen, active_joint)
                                            ELSE @]]
    /\ UNCHANGED <<recorder_vars, arm_vars, dashboard_lock, handler, sent, audit, feed, recordings,
                   controller, end_effector>>

\* the holder of the lock after thread t has left "with self.dashboard_lock":
\* the with statement releases it when the block returns and when an
\* exception leaves it
WithExitOnReturn(t, raised) == IF raised THEN t ELSE "free"
WithExit(t, raised) == "free"

CtlAnglesAcquire(t) ==
    /\ ctl[t].pc = "angles_wait"
    /\ dashboard_lock = "free"
    /\ dashboard_lock' = t
    /\ ctl' = [ctl EXCEPT ![t].pc = "angles_read"]
    /\ UNCHANGED <<recorder_vars, arm_vars, handler, sent, audit, feed, recordings,
                   controller, end_effector>>

\* self.angles returns; bound_movement and the dead zone follow
CtlAnglesReturn(t) ==
    /\ ctl[t].pc = "angles_read"
    /\ dashboard_lock = t
    /\ \E outcome \in TelemetryOutcomes \cup {"empty"} :
          /\ dashboard_lock' = WithExit(t, outcome = "zeros")
          /\ outcome # "zeros" => link_up
          /\ outcome # "ok" => MayFail
          /\ feed' = IF outcome = "zeros" THEN LogRobot(feed, "Error getting angles")
                     ELSE feed
          /\ Len(feed') <= MaxFeed
          /\ IF outcome = "empty"
             THEN \* a reply without numbers: "No angles available" is raised
                  ctl' = [ctl EXCEPT ![t] = [@ EXCEPT !.pc = "crashed",
                                                      !.current_angles = <<>>]]
             ELSE LET current == IF outcome = "ok" THEN arm_angles ELSE ZeroVec
                      bounded == BoundMovement(current, ctl[t].intended)
                  IN  ctl' = [ctl EXCEPT ![t] =
                                 [@ EXCEPT !.pc = "decide",
                                           !.read_failed = (outcome = "zeros"),
                                           !.current_angles = current,
                                           !.bounded = bounded,
                                           !.movement = DeadZone(bounded)]]
    /\ UNCHANGED <<recorder_vars, arm_vars, handler, sent, audit, recordings,
                   controller, end_effector>>

\* if np.any(movement): a command follows only for a vector that is not all zero
TickMovesAlways(movement) == TRUE
TickMoves(movement) == VecAny(movement)

CtlDecide(t) ==
    /\ ctl[t].pc = "decide"
    /\ ctl' = [ctl EXCEPT ![t] = IF TickMoves(@.movement) THEN [@ EXCEPT !.pc = "send"]
                                 ELSE AfterTick(@)]
    /\ UNCHANGED <<recorder_vars, arm_vars, dashboard_lock, handler, sent, audit, feed, recordings,
                   controller, end_effector>>

\* how a call on the _move socket can end in a transport failure:
\* ConnectionAbortedError, which move_robot catches, or another error, which
\* ends run
TransportFailures == {"aborted", "broken"}

\* move_joint_relative: RelMovJ goes out, or the transport raises
CtlSend(t) ==
    /\ ctl[t].pc = "send"
    /\ TickMovesSent < MaxTickMoves
    /\ \E outcome \in {"sent"} \cup TransportFailures :
          /\ outcome = "sent" => link_up
          /\ outcome # "sent" => MayFail
          /\ sent' = IF outcome = "sent"
                     THEN Append(sent, [by |-> t, func |-> "move_joint_relative",
                                        value |-> ctl[t].movement, entry |-> 0])
                     ELSE sent
          /\ ctl' = [ctl EXCEPT ![t] =
                CASE outcome = "sent" -> [@ EXCEPT !.pc = "sync"]
                  [] outcome = "aborted" -> AfterTick(@)   \* logged, the tick is over
                  [] outcome = "broken" -> [@ EXCEPT !.pc = "crashed"]]
          /\ feed' = IF outcome = "aborted"
                     THEN AddFeed(feed, "Connection aborted", "Recorder") ELSE feed
          /\ Len(feed') <= MaxFeed
          /\ audit' = IF outcome = "sent" THEN [audit EXCEPT !.unpolled = @ + 1]
                      ELSE audit
    /\ UNCHANGED <<recorder_vars, arm_vars, dashboard_lock, handler, recordings,
                   controller, end_effector>>

\* Sync returns: the arm has moved or has refused; or the transport raises
CtlSync(t) ==
    /\ ctl[t].pc = "sync"
    /\ \E outcome \in {"moved", "refused"} \cup TransportFailures :
          /\ outcome \in {"moved", "refused"} => link_up
          /\ outcome \in TransportFailures => MayFail
          /\ arm_angles' = IF outcome = "moved"
                           THEN VecAdd(arm_angles, ctl[t].movement) ELSE arm_angles
          /\ arm_error' = IF outcome = "refused" THEN TRUE ELSE arm_error
          /\ IF outcome \in {"moved", "refused"} /\ TickRecords(mode, ctl[t].movement)
             THEN /\ memory' = Save(memory, "RELATIVE", JOINT, RecordedMovement(ctl[t]))
                  /\ audit' = [audit EXCEPT !.appended = @ + 1]
             ELSE UNCHANGED <<memory, audit>>
          /\ ctl' = [ctl EXCEPT ![t] = IF outcome = "broken"
                                       THEN [@ EXCEPT !.pc = "crashed"]
                                       ELSE AfterTick(@)]
          /\ feed' = IF outcome = "aborted"
                     THEN AddFeed(feed, "Connection aborted", "Recorder") ELSE feed
          /\ Len(feed') <= MaxFeed
    /\ UNCHANGED <<running, mode, active_joint, controller_buffer, link_up,
                   dashboard_lock, handler, sent, recordings, controller, end_effector>>

\* the display refresh: self.pose and self.angles, each under the lock
CtlRefreshAcquire(t) ==
    /\ ctl[t].pc \in {"pose_wait", "dangles_wait"}
    /\ dashboard_lock = "free"
    /\ dashboard_lock' = t
    /\ ctl' = [ctl EXCEPT ![t].pc = IF @ = "pose_wait" THEN "pose_read"
                                    ELSE "dangles_read"]
    /\ UNCHANGED <<recorder_vars, arm_vars, handler, sent, audit, feed, recordings,
                   controller, end_effector>>

CtlRefreshReturn(t) ==
    /\ ctl[t].pc \in {"pose_read", "dangles_read"}
    /\ dashboard_lock = t
    /\ \E outcome \in TelemetryOutcomes :
          /\ dashboard_lock' = WithExit(t, outcome # "ok")
          /\ outcome = "ok" => link_up
          /\ outcome # "ok" => MayFail
          /\ feed' = IF outcome = "ok" THEN feed
                     ELSE IF ctl[t].pc = "pose_read"
                     THEN LogRobot(feed, "Error getting pose")
                     ELSE LogRobot(feed, "Error getting angles")
          /\ Len(feed') <= MaxFeed
    /\ ctl' = [ctl EXCEPT ![t].pc = IF @ = "pose_read" THEN "dangles_wait"
                                    ELSE "loop"]
    /\ UNCHANGED <<recorder_vars, arm_vars, handler, sent, audit, recordings,
                   controller, end_effector>>

ControlThread(t) ==
    \/ CtlLoop(t) \/ CtlTick(t) \/ CtlAnglesAcquire(t) \/ CtlAnglesReturn(t)
    \/ CtlDecide(t) \/ CtlSend(t) \/ CtlSync(t) \/ CtlRefreshAcquire(t) \/ CtlRefreshReturn(t)

(***************************************************************************)
(* RobotInterface.nonblocking_move, run by a handler thread h: the motion  *)
(* primitive (command, then Sync), the poll of error_id, and on an error   *)
(* the log lines (each reads error_id again) and clear_error.              *)
(*   nb_send      func(params) is about to send its command                *)
(*   nb_sync      the command is sent, Sync has not returned               *)
(*   nb_err_*     len(self.error_id): _wait for the lock, _read holding it *)
(*   nb_log1_*    log_robot("Invalid movement [error_id]")                 *)
(*   nb_log2_*    clear_error: log_robot("Clearing error (error_id)")      *)
(*   nb_clear_*   clear_error: ClearError, EnableRobot under the lock      *)
(***************************************************************************)
\* the joint angles after a cartesian or absolute move (kinematics is the arm's)
AnglesAfterMove == { <<Deg(80), Deg(125), Deg(245), Deg(355)>> }

\* a handler ends with an exception
Raised(h, name) ==
    /\ handler' = [handler EXCEPT ![h] = HandlerIdle]
    /\ audit' = [audit EXCEPT !.raised = name]

\* where nonblocking_move returns to, with its result
ReturnFromMove(hr, result) ==
    IF hr.op = "replay"
    THEN [hr EXCEPT !.result = result,
                    !.pc = IF result THEN "rp_sync2" ELSE "rp_log3_wait"]
    ELSE IF hr.op = "clear_error"
    THEN [hr EXCEPT !.pc = "idle"]                         \* the dashboard's button
    ELSE [hr EXCEPT !.result = result, !.pc = "dp_save"]   \* linear_move_func

NbSend(h) ==
    /\ handler[h].pc = "nb_send"
    /\ \E outcome \in {"sent", "raised"} :
          /\ outcome = "sent" => link_up
          /\ outcome = "raised" => MayFail
          /\ IF outcome = "sent"
             THEN /\ sent' = Append(sent, [by |-> h, func |-> handler[h].func,
                                           value |-> handler[h].arg,
                                           entry |-> handler[h].i])
                  /\ handler' = [handler EXCEPT ![h].pc = "nb_sync"]
                  /\ audit' = [audit EXCEPT !.unpolled = @ + 1]
             ELSE /\ sent' = sent
                  /\ Raised(h, "TransportError")
    /\ UNCHANGED <<recorder_vars, arm_vars, dashboard_lock, ctl, feed, recordings,
                   controller, end_effector>>

NbSync(h) ==
    /\ handler[h].pc = "nb_sync"
    /\ \E outcome \in {"moved", "refused", "raised"} :
          /\ outcome # "raised" => link_up
          /\ outcome = "raised" => MayFail
          /\ arm_error' = IF outcome = "refused" THEN TRUE ELSE arm_error
          /\ IF outcome # "moved" THEN arm_angles' = arm_angles
             ELSE IF handler[h].func = "move_joint_relative"
                     /\ DOMAIN handler[h].arg = Joints
                     /\ \A j \in Joints : handler[h].arg[j] \in Int
                  THEN arm_angles' = VecAdd(arm_angles, handler[h].arg)
                  ELSE arm_angles' \in AnglesAfterMove
          /\ IF outcome = "raised" THEN Raised(h, "TransportError")
             ELSE /\ handler' = [handler EXCEPT ![h].pc = "nb_err_wait"]
                  /\ audit' = audit
    /\ UNCHANGED <<recorder_vars, link_up, dashboard_lock, ctl, sent, feed, recordings,
                   controller, end_effector>>

\* with self.dashboard_lock: entered
HandlerAcquire(h) ==
    /\ handler[h].pc \in {"nb_err_wait", "nb_log1_wait", "nb_log2_wait",
                          "nb_clear_wait", "rp_log3_wait", "sv_pose_wait",
                          "alive_wait", "rc_close_wait", "rc_init_wait",
                          "st_close_wait"}
    /\ dashboard_lock = "free"
    /\ dashboard_lock' = h
    /\ handler' = [handler EXCEPT ![h].pc =
          CASE @ = "nb_err_wait" -> "nb_err_read"
            [] @ = "nb_log1_wait" -> "nb_log1_read"
            [] @ = "nb_log2_wait" -> "nb_log2_read"
            [] @ = "nb_clear_wait" -> "nb_clear"
            [] @ = "rp_log3_wait" -> "rp_log3_read"
            [] @ = "sv_pose_wait" -> "sv_pose_read"
            [] @ = "alive_wait" -> "alive_read"
            [] @ = "rc_close_wait" -> "rc_close"
            [] @ = "rc_init_wait" -> "rc_init"
            [] @ = "st_close_wait" -> "st_close"]
    /\ UNCHANGED <<recorder_vars, arm_vars, ctl, sent, audit, feed, recordings,
                   controller, end_effector>>

\* RobotInterface.error_id, by what GetErrorID does:
\*   "list"       a reply with return code 0 and the method name GetErrorID
\*   "rejected"   a reply with another return code or method name
\*   "garbled"    a reply whose parsing raises
\*   "transport"  GetErrorID raises: no reply
ErrorIdOutcomes == {"list", "rejected", "garbled", "transport"}
\* the codes the register holds, and their translations ("Unknown error N" for
\* a code that translation.json does not have)
ErrorCodes == <<22, 9999>>
Translate(code) == IF code = 22 THEN <<"translated", code>> ELSE <<"Unknown error", code>>
\* what the property does: returns the list of translations, returns None after
\* a log line, or raises UnboundLocalError from its except clause (result was
\* never bound when print("Result", result) runs)
ErrorIdNoCodes(outcome, err) ==
    [ends |-> "list", log |-> <<>>, value |-> <<>>]
ErrorId(outcome, err) ==
    CASE outcome = "list" ->
             [ends |-> "list", log |-> <<>>,
              value |-> IF err THEN [k \in DOMAIN ErrorCodes |-> Translate(ErrorCodes[k])]
                        ELSE <<>>]
      [] outcome = "rejected" ->
             [ends |-> "None", log |-> <<"Error extracting error codes">>, value |-> <<>>]
      [] outcome = "garbled" ->
             [ends |-> "None", log |-> <<"Error getting error id">>, value |-> <<>>]
      [] outcome = "transport" ->
             [ends |-> "UnboundLocalError", log |-> <<"Error getting error id">>,
              value |-> <<>>]
\* the feed after the log lines of one read of error_id
LogErrorId(f, e) == IF e.log = <<>> THEN f ELSE LogRobot(f, e.log[1])

\* if len(self.error_id): len(None) raises TypeError
NbErrReturn(h) ==
    /\ handler[h].pc = "nb_err_read"
    /\ dashboard_lock = h
    /\ \E outcome \in ErrorIdOutcomes :
          LET e == ErrorId(outcome, arm_error)
          IN  /\ dashboard_lock' = WithExit(h, outcome = "transport")
              /\ outcome # "transport" => link_up
              /\ outcome # "list" => MayFail
              /\ feed' = LogErrorId(feed, e)
              /\ Len(feed') <= MaxFeed
              /\ CASE e.ends = "list" ->
                        /\ handler' = [handler EXCEPT ![h] =
                              IF Len(e.value) # 0 THEN [@ EXCEPT !.pc = "nb_log1_wait"]
                              ELSE ReturnFromMove(@, TRUE)]
                        /\ audit' = [audit EXCEPT !.unpolled = 0]
                   [] e.ends = "None" -> Raised(h, "TypeError")
                   [] OTHER -> Raised(h, e.ends)
    /\ UNCHANGED <<recorder_vars, arm_vars, ctl, sent, recordings,
                   controller, end_effector>>

NbLogReturn(h) ==
    /\ handler[h].pc \in {"nb_log1_read", "nb_log2_read"}
    /\ dashboard_lock = h
    /\ \E outcome \in ErrorIdOutcomes :
          LET e == ErrorId(outcome, arm_error)
              line == IF handler[h].pc = "nb_log1_read" THEN "Invalid movement"
                      ELSE "Clearing error"
          IN  /\ dashboard_lock' = WithExit(h, outcome = "transport")
              /\ outcome # "transport" => link_up
              /\ outcome # "list" => MayFail
              /\ IF e.ends = "UnboundLocalError"
                 THEN /\ feed' = LogErrorId(feed, e)
                      /\ Raised(h, e.ends)
                 ELSE \* the list, or None, is formatted into the line
                      /\ feed' = LogRobot(LogErrorId(feed, e), line)
                      /\ handler' = [handler EXCEPT ![h].pc =
                            IF @ = "nb_log1_read" THEN "nb_log2_wait"
                            ELSE "nb_clear_wait"]
                      /\ audit' = audit
              /\ Len(feed') <= MaxFeed
    /\ UNCHANGED <<recorder_vars, arm_vars, ctl, sent, recordings,
                   controller, end_effector>>

\* clear_error: ClearError, sleep, EnableRobot; nonblocking_move returns False
NbClearReturn(h) ==
    /\ handler[h].pc = "nb_clear"
    /\ dashboard_lock = h
    /\ dashboard_lock' = WithExit(h, ~link_up)
    /\ IF link_up
       THEN /\ arm_error' = FALSE
            /\ handler' = [handler EXCEPT ![h] = ReturnFromMove(@, FALSE)]
            /\ audit' = audit
       ELSE /\ arm_error' = arm_error
            /\ Raised(h, "TransportError")
    /\ UNCHANGED <<recorder_vars, arm_angles, link_up, ctl, sent, feed, recordings,
                   controller, end_effector>>

NonblockingMove(h) ==
    \/ NbSend(h) \/ NbSync(h) \/ HandlerAcquire(h) \/ NbErrReturn(h)
    \/ NbLogReturn(h) \/ NbClearReturn(h)

(***************************************************************************)
(* RobotInterface.replay(memory), run by a handler thread h: the circle    *)
(* button (replay_func) or the dashboard's replay button.  memory is the   *)
(* recorder's list itself, walked by index as a list iterator does.        *)
(*   rp_next      the for statement fetches entry i and selects func       *)
(*   rp_log3_*    the failure log line reads self.angles                   *)
(*   rp_mark      entries i.. are marked invalid, break                    *)
(*   rp_sync2     self._move.Sync() after a successful move                *)
(***************************************************************************)
\* the motion primitive replay selects; an entry that matches no branch leaves
\* func as the previous entry left it
SelectFunc(entry, func) ==
    IF entry.type = "ABSOLUTE"
    THEN IF entry.motion_type = LINEAR THEN "move_linear"
         ELSE IF entry.motion_type = JOINT THEN "move_joint" ELSE func
    ELSE IF entry.type = "RELATIVE"
    THEN IF entry.motion_type = LINEAR THEN "move_linear_relative"
         ELSE IF entry.motion_type = JOINT THEN "move_joint_relative" ELSE func
    ELSE func

\* for j in range(i, len(memory)): memory[j].valid = False   (i is 1-based here)
MarkInvalidAfter(mem, i) ==
    [j \in DOMAIN mem |-> IF j > i THEN [mem[j] EXCEPT !.valid = FALSE] ELSE mem[j]]
MarkInvalidFrom(mem, i) ==
    [j \in DOMAIN mem |-> IF j >= i THEN [mem[j] EXCEPT !.valid = FALSE] ELSE mem[j]]

\* replay has returned: the thread is idle again (op, i, result, snap and base
\* stay as the call left them, until the thread's next handler starts)
Returned(hr, result) == [hr EXCEPT !.pc = "idle", !.result = result]

ReplayStart(h) ==
    /\ handler[h].pc = "idle"
    /\ audit.replays < MaxReplays
    /\ handler' = [handler EXCEPT ![h] =
          [HandlerIdle EXCEPT !.pc = "rp_next", !.op = "replay", !.i = 1,
                              !.snap = memory, !.base = Len(sent)]]
    /\ audit' = [audit EXCEPT !.replays = @ + 1, !.raised = "none"]
    /\ feed' = LogRobot(feed, "Replaying")
    /\ Len(feed') <= MaxFeed
    /\ UNCHANGED <<recorder_vars, arm_vars, dashboard_lock, ctl, sent, recordings,
                   controller, end_effector>>

ReplayNext(h) ==
    /\ handler[h].pc = "rp_next"
    /\ IF handler[h].i > Len(memory)
       THEN \* the list is exhausted: "Done Replaying"
            /\ handler' = [handler EXCEPT ![h] = Returned(@, TRUE)]
            /\ audit' = audit
            /\ feed' = LogRobot(feed, "Done Replaying")
            /\ Len(feed') <= MaxFeed
       ELSE /\ feed' = feed
            /\ LET entry == memory[handler[h].i]
                   func == SelectFunc(entry, handler[h].func)
               IN  IF entry.type \in {"ABSOLUTE", "RELATIVE"}
                         /\ IsNdarray(entry.motion_type)
                   THEN \* if <ndarray == MotionType.LINEAR>: ambiguous truth value
                        Raised(h, "ValueError")
                   ELSE IF func = "unbound"
                   THEN Raised(h, "UnboundLocalError")
                   ELSE IF IsMotionType(entry.value)
                   THEN \* func(*params) unpacks a member of MotionType
                        Raised(h, "TypeError")
                   ELSE /\ handler' = [handler EXCEPT ![h] =
                              [@ EXCEPT !.pc = "nb_send", !.func = func,
                                        !.arg = entry.value]]
                        /\ audit' = audit
    /\ UNCHANGED <<recorder_vars, arm_vars, dashboard_lock, ctl, sent, recordings,
                   controller, end_effector>>

\* "Error replaying from {self.angles}" (self.angles logs a line of its own when
\* it fails), then "Error replaying to {entry.value}"
ReplayLogReturn(h) ==
    /\ handler[h].pc = "rp_log3_read"
    /\ dashboard_lock = h
    /\ dashboard_lock' = "free"
    /\ \E outcome \in TelemetryOutcomes :
          /\ outcome = "ok" => link_up
          /\ outcome # "ok" => MayFail
          /\ feed' = LogRobot(LogRobot(IF outcome = "ok" THEN feed
                                       ELSE LogRobot(feed, "Error getting angles"),
                                       "Error replaying from"),
                              "Error replaying to")
    /\ Len(feed') <= MaxFeed
    /\ handler' = [handler EXCEPT ![h].pc = "rp_mark"]
    /\ UNCHANGED <<recorder_vars, arm_vars, ctl, sent, audit, recordings,
                   controller, end_effector>>

\* the entries from i on are marked, break, "Done Replaying"
ReplayMark(h) ==
    /\ handler[h].pc = "rp_mark"
    /\ memory' = MarkInvalidFrom(memory, handler[h].i)
    /\ handler' = [handler EXCEPT ![h] = Returned(@, FALSE)]
    /\ feed' = LogRobot(feed, "Done Replaying")
    /\ Len(feed') <= MaxFeed
    /\ UNCHANGED <<running, mode, active_joint, controller_buffer, arm_vars,
                   dashboard_lock, ctl, sent, audit, recordings,
                   controller, end_effector>>

ReplaySync2(h) ==
    /\ handler[h].pc = "rp_sync2"
    /\ handler' = [handler EXCEPT ![h] = [@ EXCEPT !.pc = "rp_next", !.i = @ + 1]]
    /\ UNCHANGED <<recorder_vars, arm_vars, dashboard_lock, ctl, sent, audit, feed, recordings,
                   controller, end_effector>>

Replay(h) ==
    \/ ReplayStart(h) \/ ReplayNext(h) \/ ReplayLogReturn(h) \/ ReplayMark(h)
    \/ ReplaySync2(h)

(***************************************************************************)
(* Dashboard: the bundle command, optimize_relative_movement               *)
(* self.memory is read when the pass starts and assigned when it ends.     *)
(***************************************************************************)
BundleBegin ==
    /\ handler["dash"].pc = "idle"
    /\ audit.bundles < MaxBundles
    /\ IF memory = <<>>
       THEN \* self.memory[0] raises
            /\ audit' = [audit EXCEPT !.raised = "IndexError",
                                      !.bundles = @ + 1]
            /\ handler' = handler
       ELSE /\ handler' = [handler EXCEPT !["dash"] =
                              [@ EXCEPT !.pc = "bundle", !.op = "bundle",
                                        !.snap = memory]]
            /\ audit' = [audit EXCEPT !.raised = "none"]
    /\ UNCHANGED <<recorder_vars, arm_vars, dashboard_lock, ctl, sent, feed, recordings,
                   controller, end_effector>>

BundleEnd ==
    /\ handler["dash"].pc = "bundle"
    /\ LET snap == handler["dash"].snap
           pass == OptimizePass(snap)
       IN  IF pass.raised # "none"
           THEN /\ memory' = MergedInPlace(memory, snap, pass)
                /\ audit' = [audit EXCEPT !.bundles = @ + 1, !.raised = pass.raised]
           ELSE /\ memory' = pass.optimized_memory
                /\ audit' = [audit EXCEPT !.bundles = @ + 1,
                                          !.merged = @ + Len(snap) - Len(memory')]
    /\ handler' = [handler EXCEPT !["dash"] = HandlerIdle]
    /\ UNCHANGED <<running, mode, active_joint, controller_buffer, arm_vars,
                   dashboard_lock, ctl, sent, feed, recordings,
                   controller, end_effector>>

(***************************************************************************)
(* Memories the recorder can hold: entries of ticks and pad moves          *)
(* (RELATIVE), of save edges (ABSOLUTE) and of the end-effector button.    *)
(***************************************************************************)
RelativeValues ==
    { <<Deg(1), 0, 0, 0>>, <<Deg(2), 0, 0, 0>>, <<Deg(-1), 0, 0, 0>>,
      <<0, Deg(5), 0, 0>> }
AbsoluteValue == <<Deg(200), Deg(10), Deg(50), 0>>
\* gripper_func, closing: (power, 0), (direction, 0), (power, 1) on pins 13, 12
EndEffectorValue == << <<13, 0>>, <<12, 0>>, <<13, 1>> >>

EntrySamples ==
    [type : {"RELATIVE"}, motion_type : {JOINT, LINEAR},
     value : RelativeValues, valid : BOOLEAN]
    \cup [type : {"ABSOLUTE"}, motion_type : {JOINT},
          value : {AbsoluteValue}, valid : BOOLEAN]
    \cup [type : {"END_EFFECTOR"}, motion_type : {GRIPPER},
          value : {EndEffectorValue}, valid : {TRUE}]

\* the entries the recorder itself appends: of a tick, of a save edge, of a
\* directional-pad edge
SavedEntrySamples ==
    { Save(<<>>, "RELATIVE", JOINT, <<Deg(1), 0, 0, 0>>)[1],
      Save(<<>>, "ABSOLUTE", JOINT, AbsoluteValue)[1],
      Save(<<>>, "RELATIVE", LINEAR, PyList(<<0, Deg(5), 0, 0>>))[1] }

MemorySamples ==
    UNION { [1..n -> EntrySamples \cup SavedEntrySamples] : n \in 0..MaxMem }

\* a few memories: empty, loaded from a file, recorded by a save edge
KeysMemorySamples ==
    { <<>>,
      << MemoryEntry("ABSOLUTE", AbsoluteValue, JOINT) >>,
      Save(<<>>, "ABSOLUTE", JOINT, AbsoluteValue),
      << MemoryEntry("RELATIVE", <<Deg(1), 0, 0, 0>>, JOINT),
         MemoryEntry("END_EFFECTOR", EndEffectorValue, GRIPPER) >> }

(***************************************************************************)
(* SpecOptimize: the bundle command on every sample memory                 *)
(***************************************************************************)
InitOptimize ==
    /\ running = FALSE
    /\ mode = "ABSOLUTE"
    /\ active_joint = number_of_joints \div 2
    /\ controller_buffer = BufferZero
    /\ memory \in MemorySamples
    /\ arm_angles = ZeroVec
    /\ arm_error = FALSE
    /\ link_up = TRUE
    /\ dashboard_lock = "free"
    /\ ctl = [t \in CtlIds |-> CtlUnborn]
    /\ handler = [h \in HandlerIds |-> HandlerIdle]
    /\ feed = ConstructedFeed
    /\ recordings = NoFile
    /\ controller = ConnectedController
    /\ end_effector = NoEndEffector
    /\ sent = <<>>
    /\ audit = AuditZero

NextOptimize == BundleBegin \/ BundleEnd

SpecOptimize == InitOptimize /\ [][NextOptimize]_vars

\* the step that ends a bundle pass
BundleReturns == handler["dash"].pc = "bundle" /\ handler'["dash"].pc = "idle"

\* a memory list as the recorder's operations expect it
WellFormedMemory(mem) ==
    \A i \in DOMAIN mem :
        /\ mem[i].type \in {"ABSOLUTE", "RELATIVE", "END_EFFECTOR"}
        /\ mem[i].valid \in BOOLEAN

(* C22: the bundle command is safe to call in every recorder state and      *)
(* repeatedly: for every memory, the empty memory included, it completes    *)
(* without raising and leaves a well-formed memory list; the empty memory   *)
(* stays empty.                                                             *)
C22_BundleSafe ==
    /\ audit.raised = "none"
    /\ WellFormedMemory(memory)

(* C9: optimize_relative_movement is idempotent: a pass over a memory that  *)
(* an earlier pass produced leaves type, motion kind, value and valid flag  *)
(* of every entry, and the length, as they are.                             *)
C9_Idempotent ==
    [][(BundleReturns /\ audit.bundles >= 1) => memory' = memory]_vars

\* a second pass has run on a memory whose first pass merged entries
C9_Witness == audit.bundles = 2 /\ audit.merged >= 1 /\ Len(memory) >= 2

\* entry b of the memory follows entry a and satisfies the three conditions
SameDirection(a, b) ==
    /\ a.type = "RELATIVE" /\ b.type = "RELATIVE"
    /\ a.motion_type = b.motion_type
    /\ IsNdarray(a.value) /\ IsNdarray(b.value)
    /\ \A j \in Joints : Sign(a.value[j]) = Sign(b.value[j])

\* the places of mem where a new group starts, and the k-th of them
GroupStarts(mem) ==
    {i \in 1..Len(mem) : i = 1 \/ ~SameDirection(mem[i - 1], mem[i])}
GroupStart(mem, k) ==
    CHOOSE s \in GroupStarts(mem) :
        Cardinality({x \in GroupStarts(mem) : x <= s}) = k
GroupEnd(mem, k) ==
    IF k = Cardinality(GroupStarts(mem)) THEN Len(mem)
    ELSE GroupStart(mem, k + 1) - 1
RECURSIVE SumValues(_, _, _)
SumValues(mem, from, to) ==
    IF from = to THEN mem[from].value
    ELSE VecAdd(SumValues(mem, from, to - 1), mem[to].value)

(* C10: a pass merges an entry into the group before it exactly when both   *)
(* are RELATIVE, of one motion kind and of equal sign vectors; every other  *)
(* entry starts a group; a group's value is the sum of its entries' values. *)
C10_MergeRule ==
    [][BundleReturns =>
        /\ Len(memory') = Cardinality(GroupStarts(memory))
        /\ \A k \in 1..Len(memory') :
              /\ memory'[k].type = memory[GroupStart(memory, k)].type
              /\ memory'[k].motion_type = memory[GroupStart(memory, k)].motion_type
              /\ memory'[k].value =
                    SumValues(memory, GroupStart(memory, k), GroupEnd(memory, k))
      ]_vars

\* [1,0,0,0] and [2,0,0,0] were merged into [3,0,0,0], next to a group of the
\* opposite sign that was kept apart
C10_Witness ==
    /\ audit.bundles = 1 /\ audit.merged = 1 /\ Len(memory) = 2
    /\ memory[1].value = <<Deg(3), 0, 0, 0>>
    /\ memory[2].type = "RELATIVE" /\ memory[2].motion_type = memory[1].motion_type
    /\ memory[2].value = <<Deg(-1), 0, 0, 0>>

\* entries j..i of mem are consecutive entries of one group
OneGroup(mem, j, i) == \A m \in (j + 1)..i : SameDirection(mem[m - 1], mem[m])

(* C35: optimize_relative_movement propagates invalidity: a merged entry    *)
(* has valid = false if and only if at least one of the entries merged      *)
(* into it had valid = false, and an entry that is not merged keeps its     *)
(* valid flag.  A pass that an exception ends has merged in place: an       *)
(* entry it leaves invalid was invalid or has an invalid entry of its       *)
(* group after it, and no entry becomes valid.                              *)
C35_ValidPropagates ==
    [][BundleReturns =>
        IF audit'.raised = "none"
        THEN /\ Len(memory') = Cardinality(GroupStarts(memory))
             /\ \A k \in 1..Len(memory') :
                   memory'[k].valid <=>
                      \A i \in GroupStart(memory, k)..GroupEnd(memory, k) :
                          memory[i].valid
        ELSE /\ Len(memory') = Len(memory)
             /\ \A j \in DOMAIN memory :
                   /\ memory'[j].valid => memory[j].valid
                   /\ (memory[j].valid /\ ~memory'[j].valid) =>
                         \E i \in (j + 1)..Len(memory) :
                             ~memory[i].valid /\ OneGroup(memory, j, i)
      ]_vars

\* [1,0,0,0] and [2,0,0,0], one of them invalid, were merged into an invalid
\* [3,0,0,0], next to an entry that was not merged and is still valid
C35_Witness ==
    /\ audit.bundles = 1 /\ audit.merged = 1 /\ audit.raised = "none"
    /\ Len(memory) = 2
    /\ memory[1].value = <<Deg(3), 0, 0, 0>> /\ ~memory[1].valid
    /\ memory[2].type = "RELATIVE" /\ memory[2].valid

\* entry b follows entry a in one run of RELATIVE entries of one motion kind
SameRun(a, b) ==
    /\ a.type = "RELATIVE" /\ b.type = "RELATIVE" /\ a.motion_type = b.motion_type
    /\ IsNdarray(a.value) /\ IsNdarray(b.value)

\* the places of mem where a maximal run starts (an entry that is not RELATIVE
\* is a run of its own), the k-th of them, and where that run ends
RunStarts(mem) == {i \in 1..Len(mem) : i = 1 \/ ~SameRun(mem[i - 1], mem[i])}
RunStart(mem, k) ==
    CHOOSE s \in RunStarts(mem) : Cardinality({x \in RunStarts(mem) : x <= s}) = k
RunEnd(mem, k) ==
    IF k = Cardinality(RunStarts(mem)) THEN Len(mem) ELSE RunStart(mem, k + 1) - 1

\* what a memory amounts to: per run of RELATIVE entries its motion kind and
\* net displacement, and every other entry as it is, in order
NetDisplacement(mem) ==
    [k \in 1..Cardinality(RunStarts(mem)) |->
        LET first == mem[RunStart(mem, k)]
        IN  IF first.type = "RELATIVE"
            THEN [type |-> "RELATIVE", motion_type |-> first.motion_type,
                  value |-> SumValues(mem, RunStart(mem, k), RunEnd(mem, k))]
            ELSE first]

(* C11: optimize_relative_movement does not change net displacement: each  *)
(* maximal run of consecutive RELATIVE entries of one motion kind has the   *)
(* same component-wise sum before and after the pass, and the ABSOLUTE and  *)
(* END_EFFECTOR entries are kept unchanged, in the same order relative to   *)
(* those runs.                                                              *)
C11_NetDisplacement ==
    [][BundleReturns => NetDisplacement(memory') = NetDisplacement(memory)]_vars

\* a pass has merged entries of a run that stands next to an entry that is not
\* RELATIVE
C11_Witness ==
    /\ audit.bundles = 1 /\ audit.merged >= 1
    /\ \E i \in 1..(Len(memory) - 1) :
          (memory[i].type = "RELATIVE") # (memory[i + 1].type = "RELATIVE")


(***************************************************************************)
(* SpecTick: one control thread ticking, from every sampled arm position,  *)
(* controller buffer, active joint and mode                                *)
(***************************************************************************)
HalfDeg == Scale \div 2
AngleSamples ==
    { <<0, 0, Deg(165), 0>>,                                      \* mid range
      <<Deg(80), Deg(125), Deg(245), Deg(355)>>,                  \* at the upper bounds
      <<Deg(80) - HalfDeg, Deg(123), Deg(245) - HalfDeg, Deg(350)>>,
      <<Deg(-80), Deg(-125), Deg(85), Deg(-355)>>,                \* at the lower bounds
      <<Deg(-80) + 9792, Deg(-125) + 9792, Deg(85) + 9792, Deg(-350)>>,
      <<Deg(90), 0, Deg(50), 0>> }                                \* outside the bounds

\* raw levels the device reports (r2, l2, left stick x, right stick x): triggers
\* 0..255, axes -128..127; 20/255 and 12/128 of a speed of 5 lie inside the dead
\* zone, 13/128 just outside; 3 is below the input threshold
RawInputSamples ==
    { <<0, 0, 0, 0>>, <<255, 0, 0, 0>>, <<0, 255, 0, 0>>, <<20, 0, 0, 0>>,
      <<0, 0, 13, 0>>, <<0, 0, -128, 127>>, <<255, 0, -128, 0>>,
      <<3, 0, 0, 127>>, <<255, 255, 12, 0>> }

BufferSamples ==
    { [joint_pos |-> TriggerLevel(x[1]), joint_neg |-> TriggerLevel(x[2]),
       left_joystick |-> JoystickLevel(x[3]), right_joystick |-> JoystickLevel(x[4])] :
         x \in RawInputSamples }

InitTick ==
    /\ running = TRUE
    /\ mode \in {"ABSOLUTE", "RELATIVE"}
    /\ active_joint \in 0..(number_of_joints - 1)
    /\ controller_buffer \in BufferSamples
    /\ memory = <<>>
    /\ arm_angles \in AngleSamples
    /\ arm_error = FALSE
    /\ link_up = TRUE
    /\ dashboard_lock = "free"
    /\ ctl = [t \in CtlIds |-> IF t = "ctl1" THEN [CtlUnborn EXCEPT !.pc = "loop"]
                               ELSE CtlUnborn]
    /\ handler = [h \in HandlerIds |-> HandlerIdle]
    /\ feed = StartedFeed
    /\ recordings = NoFile
    /\ controller = ConnectedController
    /\ end_effector = NoEndEffector
    /\ sent = <<>>
    /\ audit = AuditZero

NextTick == \E t \in CtlIds : ControlThread(t)

SpecTick == InitTick /\ [][NextTick]_vars

WithinBounds(a) == \A j \in Joints : joint_lo[j] <= a[j] /\ a[j] <= joint_hi[j]

\* the step in which thread t gets its angles and bound_movement returns
Bounds(t) == ctl[t].pc = "angles_read" /\ ctl'[t].pc = "decide"

(* C6: when the angles a that bound_movement reads lie within the joint     *)
(* bounds, the delta d' it returns for a proposed delta d keeps a + d'     *)
(* within the bounds, has for every joint the sign of d or is zero, with    *)
(* |d'| <= |d|, and equals d for every joint whose a + d is within bounds.  *)
C6_BoundMovement ==
    [][\A t \in CtlIds :
        (Bounds(t) /\ WithinBounds(ctl'[t].current_angles)) =>
            LET a == ctl'[t].current_angles
                d == ctl'[t].intended
                r == ctl'[t].bounded
            IN  \A j \in Joints :
                   /\ joint_lo[j] <= a[j] + r[j] /\ a[j] + r[j] <= joint_hi[j]
                   /\ Sign(r[j]) \in {0, Sign(d[j])}
                   /\ Abs(r[j]) <= Abs(d[j])
                   /\ (joint_lo[j] <= a[j] + d[j] /\ a[j] + d[j] <= joint_hi[j])
                         => r[j] = d[j]
      ]_vars

\* a delta was cut short, not dropped: angles within bounds, one joint clamped
\* to a smaller non-zero move and another joint left as proposed
C6_Witness ==
    \E t \in CtlIds :
        /\ ctl[t].pc = "decide"
        /\ WithinBounds(ctl[t].current_angles)
        /\ \E j \in Joints : /\ ctl[t].bounded[j] # 0
                             /\ Abs(ctl[t].bounded[j]) < Abs(ctl[t].intended[j])
        /\ \E j \in Joints : /\ ctl[t].bounded[j] # 0
                             /\ ctl[t].bounded[j] = ctl[t].intended[j]

\* thread t holds the vector its tick has computed
HasVector(t) == ctl[t].pc \in {"decide", "send", "sync"}
\* the step in which thread t's tick ends
TickEnds(t) == HasVector(t) /\ ctl'[t].pc \in {"tick", "pose_wait"}

(* C7: the vector a tick goes on with has 0 in place of every bounded       *)
(* delta of magnitude below 0.5 and the bounded delta elsewhere; a tick     *)
(* whose vector is all zero ends without a motion command and without a     *)
(* memory entry, in both modes; no all-zero joint move is ever sent.        *)
C7_DeadZone ==
    /\ [](\A t \in CtlIds : HasVector(t) =>
            \A j \in Joints :
               /\ 2 * Abs(ctl[t].bounded[j]) < Scale => ctl[t].movement[j] = 0
               /\ 2 * Abs(ctl[t].bounded[j]) >= Scale
                     => ctl[t].movement[j] = ctl[t].bounded[j])
    /\ [](\A i \in DOMAIN sent :
            sent[i].by \in CtlIds =>
               /\ \E j \in Joints : sent[i].value[j] # 0
               /\ \A j \in Joints : sent[i].value[j] = 0
                                    \/ 2 * Abs(sent[i].value[j]) >= Scale)
    /\ [][\A t \in CtlIds :
            (ctl[t].pc = "decide" /\ ctl'[t] # ctl[t]
                /\ \A j \in Joints : ctl[t].movement[j] = 0)
            => /\ TickEnds(t)
               /\ sent' = sent
               /\ memory' = memory]_vars

\* in RELATIVE mode a tick has ended without a command: its bounded delta had a
\* non-zero component, below 0.5, that the dead zone replaced by 0
C7_Witness ==
    \E t \in CtlIds :
        /\ ctl[t].pc = "decide" /\ mode = "RELATIVE"
        /\ \E j \in Joints : ctl[t].bounded[j] # 0
        /\ \A j \in Joints : ctl[t].movement[j] = 0
        /\ sent = <<>> /\ memory = <<>>

\* the step in which thread t's tick appends its entry
TickAppends(t) ==
    ctl[t].pc = "sync" /\ ctl'[t].pc # "sync" /\ Len(memory') = Len(memory) + 1

(* C8: the entry a tick appends in RELATIVE mode is a RELATIVE/JOINT entry   *)
(* that holds the delta computed from the controller buffer, before         *)
(* clamping and dead zone.                                                  *)
C8_RecordsIntended ==
    [][\A t \in CtlIds :
        TickAppends(t) =>
            LET e == memory'[Len(memory')]
            IN  /\ e.type = "RELATIVE"
                /\ e.motion_type = JOINT
                /\ e.value = ctl[t].intended]_vars

\* the step in which self.angles returns to thread t
AnglesReturns(t) == ctl[t].pc = "angles_read" /\ ctl'[t].pc # "angles_read"

(* C18: angles() never raises and, whenever it does not deliver the arm's    *)
(* four numbers (wrong return code, wrong method name, malformed text,      *)
(* transport failure), it returns the all-zero 4-vector and appends a feed  *)
(* line; the dashboard lock is released afterwards.                         *)
C18_TelemetryTotal ==
    [][\A t \in CtlIds :
        AnglesReturns(t) =>
            /\ dashboard_lock' = "free"
            /\ ctl'[t].current_angles # arm_angles =>
                  /\ ctl'[t].current_angles = ZeroVec
                  /\ Len(feed') = Len(feed) + 1]_vars

\* the step in which thread t sends its joint move
TickSends(t) == ctl[t].pc = "send" /\ Len(sent') = Len(sent) + 1

(* C17: a tick whose angle read failed, so that angles() returned the zero   *)
(* vector, treats the reading as unknown: it goes on with no delta bounded  *)
(* against the zero vector and sends no motion command.                     *)
C17_ZerosUnknown ==
    [][\A t \in CtlIds :
        /\ (ctl[t].pc = "angles_read" /\ ctl'[t].pc = "decide" /\ ctl'[t].read_failed)
              => ~VecAny(ctl'[t].movement)
        /\ TickSends(t) => ~ctl[t].read_failed]_vars

\* the step in which the motion command of thread t's tick fails before it is
\* on the wire
TickSendFails(t) == ctl[t].pc = "send" /\ ctl'[t] # ctl[t] /\ sent' = sent

(* C20: when the motion command of a control tick fails with a transport    *)
(* failure, the failure is logged to the feed, no memory entry is appended  *)
(* for that tick, no reconnect is started from inside the tick, and the     *)
(* control thread does not crash: it goes on to the next tick.              *)
C20_TickSurvivesTransport ==
    [][\A t \in CtlIds :
        /\ ctl[t].pc \in {"send", "sync"} => ctl'[t].pc # "crashed"
        /\ TickSendFails(t) =>
              /\ Len(feed') = Len(feed) + 1
              /\ memory' = memory
              /\ running' = running /\ handler' = handler
              /\ ctl'[t] = AfterTick(ctl[t])]_vars

\* the entry invariant: the motion kind fits the type and the field value
\* holds the numeric data
EntryInvariant(e) ==
    /\ e.type = "END_EFFECTOR" => e.motion_type \in {GRIPPER, SUCTION_CUP}
    /\ e.type \in {"ABSOLUTE", "RELATIVE"} => e.motion_type \in {JOINT, LINEAR}
    /\ ~IsMotionType(e.value)

(* C26: every memory entry created by a recorder operation satisfies, in    *)
(* every reachable state: type END_EFFECTOR implies motion kind GRIPPER or  *)
(* SUCTION_CUP, type ABSOLUTE or RELATIVE implies motion kind JOINT or      *)
(* LINEAR, and the field value holds the numeric vector.  Here the entries  *)
(* are those the control ticks append to a memory that starts empty.        *)
C26_EntryInvariant == \A i \in DOMAIN memory : EntryInvariant(memory[i])

\* the step in which the joint move thread t has sent completes: Sync returns
\* and the arm has moved
TickMoveCompletes(t) ==
    /\ ctl[t].pc = "sync"
    /\ arm_angles' = VecAdd(arm_angles, ctl[t].movement)
    /\ ctl'[t] = AfterTick(ctl[t])
    /\ feed' = feed

(* C27: in RELATIVE mode every control tick whose non-zero joint move       *)
(* completes successfully appends exactly one RELATIVE entry for it,        *)
(* whatever the signs of the components (moves whose components cancel in   *)
(* a signed sum included); in ABSOLUTE mode a control tick never appends an *)
(* entry.                                                                   *)
C27_TickRecords ==
    [][\A t \in CtlIds :
        /\ TickMoveCompletes(t) /\ mode = "RELATIVE" =>
              /\ Len(memory') = Len(memory) + 1
              /\ SubSeq(memory', 1, Len(memory)) = memory
              /\ memory'[Len(memory')].type = "RELATIVE"
        /\ mode = "ABSOLUTE" => memory' = memory]_vars

(***************************************************************************)
(* SpecReplay: the circle button replays every sample memory               *)
(***************************************************************************)
\* one entry of each kind replay distinguishes (a joint move also as an
\* invalid entry), and the entries a tick and a directional-pad edge append
ReplayEntrySamples ==
    {e \in EntrySamples :
        /\ e.type = "RELATIVE" => e.value = <<Deg(1), 0, 0, 0>>
        /\ ~e.valid => e.type = "RELATIVE" /\ e.motion_type = JOINT}
    \cup {e \in SavedEntrySamples : e.type = "RELATIVE"}
ReplayMemorySamples == UNION { [1..n -> ReplayEntrySamples] : n \in 0..MaxMem }

InitReplay ==
    /\ running = FALSE
    /\ mode = "ABSOLUTE"
    /\ active_joint = number_of_joints \div 2
    /\ controller_buffer = BufferZero
    /\ memory \in ReplayMemorySamples
    /\ arm_angles = <<0, 0, Deg(165), 0>>
    /\ arm_error = FALSE
    /\ link_up = TRUE
    /\ dashboard_lock = "free"
    /\ ctl = [t \in CtlIds |-> CtlUnborn]
    /\ handler = [h \in HandlerIds |-> HandlerIdle]
    /\ feed = ConstructedFeed
    /\ recordings = NoFile
    /\ controller = ConnectedController
    /\ end_effector = NoEndEffector
    /\ sent = <<>>
    /\ audit = AuditZero

NextReplay == Replay("cb") \/ NonblockingMove("cb")

SpecReplay == InitReplay /\ [][NextReplay]_vars

\* thread h's replay has returned after nonblocking_move reported a failure
ReplayFailed(h) ==
    handler[h].pc = "idle" /\ handler[h].op = "replay" /\ ~handler[h].result
\* the entries for which that replay has sent a command, in the order sent
ReplayedEntries(h) ==
    [k \in 1..(Len(sent) - handler[h].base) |-> sent[handler[h].base + k].entry]

(* C2: when entry i is the first whose move nonblocking_move reports as     *)
(* failed, then after replay has returned every entry from i on is invalid, *)
(* every entry before i is as it was before the replay, and the commands    *)
(* sent are those of entries 1..i, one each, and none of a later entry.     *)
C2_ReplayShortCircuit ==
    \A h \in HandlerIds :
        ReplayFailed(h) =>
            LET i == handler[h].i
                before == handler[h].snap
            IN  /\ Len(memory) = Len(before)
                /\ \A j \in DOMAIN memory :
                      /\ j >= i => ~memory[j].valid
                      /\ j < i => memory[j] = before[j]
                      /\ memory[j] = [before[j] EXCEPT !.valid = memory[j].valid]
                /\ ReplayedEntries(h) = [k \in 1..i |-> k]

\* the second of three valid entries failed: the first is still valid, the third
\* was marked without being sent
C2_Witness ==
    /\ ReplayFailed("cb") /\ handler["cb"].i = 2 /\ Len(memory) = 3
    /\ \A j \in 1..3 : handler["cb"].snap[j].valid
    /\ memory[1].valid /\ ~memory[2].valid /\ ~memory[3].valid
    /\ Len(sent) = 2

\* the step in which thread h's nonblocking_move returns, and the one in which
\* an exception ends it
InMove(h) ==
    handler[h].pc \in {"nb_send", "nb_sync", "nb_err_wait", "nb_err_read",
                       "nb_log1_wait", "nb_log1_read", "nb_log2_wait",
                       "nb_log2_read", "nb_clear_wait", "nb_clear"}
MoveReturns(h) ==
    InMove(h) /\ handler'[h].pc \in {"rp_sync2", "rp_log3_wait", "dp_save"}
MoveRaises(h) == InMove(h) /\ handler'[h].pc = "idle"

(* C15: nonblocking_move does not raise on an arm-side rejection: a Sync    *)
(* that leaves the arm in error is followed by the poll of the error state. *)
(* When it returns, the motion command was sent before the poll; it returns *)
(* true exactly when the poll found no error, and false exactly when the    *)
(* poll found one, after ClearError and EnableRobot have cleared it.        *)
C15_NonblockingMove ==
    [][\A h \in HandlerIds :
        /\ (handler[h].pc = "nb_sync" /\ ~arm_error /\ arm_error')
              => ~MoveRaises(h) /\ handler'[h].pc = "nb_err_wait"
        /\ (handler[h].pc = "nb_err_read" /\ ~MoveRaises(h) /\ handler'[h] # handler[h])
              => IF arm_error THEN ~MoveReturns(h)
                 ELSE MoveReturns(h) /\ handler'[h].result
        /\ MoveReturns(h) =>
              /\ Len(sent) > handler[h].base
              /\ sent[Len(sent)].by = h
              /\ sent[Len(sent)].value = handler[h].arg
              /\ handler'[h].result <=> handler[h].pc = "nb_err_read" /\ ~arm_error
              /\ ~handler'[h].result <=> handler[h].pc = "nb_clear" /\ ~arm_error'
      ]_vars

\* the step in which error_id hands its result to nonblocking_move's len()
ErrorIdPolled(h) == handler[h].pc = "nb_err_read" /\ handler'[h] # handler[h]

(* C19: error_id always returns a list, the translations of the active      *)
(* error codes or the empty list when no error is active, for every reply   *)
(* of the arm and for a transport failure: the poll of nonblocking_move     *)
(* gets a list whose length tells whether an error is active, never None    *)
(* and never an exception.                                                  *)
C19_ErrorIdList ==
    [][\A h \in HandlerIds :
        ErrorIdPolled(h) =>
            /\ ~MoveRaises(h)
            /\ IF arm_error THEN handler'[h].pc = "nb_log1_wait"
               ELSE MoveReturns(h) /\ handler'[h].result]_vars

\* the step in which replay takes entry i of the memory and selects func
ReplayTakes(h) ==
    /\ handler[h].pc = "rp_next"
    /\ handler[h].i <= Len(memory)
    /\ handler'[h] # handler[h]
HasOwnPrimitive(entry) ==
    entry.type \in {"ABSOLUTE", "RELATIVE"} /\ entry.motion_type \in {JOINT, LINEAR}
\* the primitive of a (type, motion kind) pair
OwnPrimitive(entry) ==
    CASE entry.type = "ABSOLUTE" /\ entry.motion_type = LINEAR -> "move_linear"
      [] entry.type = "ABSOLUTE" /\ entry.motion_type = JOINT -> "move_joint"
      [] entry.type = "RELATIVE" /\ entry.motion_type = LINEAR -> "move_linear_relative"
      [] entry.type = "RELATIVE" /\ entry.motion_type = JOINT -> "move_joint_relative"

(* C28: replay of a memory that contains END_EFFECTOR entries sends no arm  *)
(* motion command for such an entry and goes on without raising; the        *)
(* motion primitive chosen for an ABSOLUTE or RELATIVE entry depends only   *)
(* on that entry's own (type, motion kind) pair, never on the entry         *)
(* replayed before it.                                                      *)
C28_ReplayEndEffector ==
    [][\A h \in HandlerIds :
        ReplayTakes(h) =>
            LET entry == memory[handler[h].i]
            IN  /\ entry.type = "END_EFFECTOR" =>
                      /\ handler'[h].pc # "nb_send"
                      /\ audit'.raised = "none"
                /\ HasOwnPrimitive(entry) /\ handler'[h].pc = "nb_send" =>
                      handler'[h].func = OwnPrimitive(entry)]_vars

\* a move of a replay was refused: it was reported as failed, with the error
\* cleared, after an earlier move that was reported as done
C15_Witness ==
    /\ handler["cb"].pc = "rp_log3_wait" /\ handler["cb"].i = 2
    /\ ~handler["cb"].result /\ ~arm_error
    /\ Len(sent) = 2
    /\ \E k \in DOMAIN feed : feed[k].message = "Clearing error"

(***************************************************************************)
(* The controller's edge handlers (default_keymap), run by the             *)
(* controller's dispatcher thread "cb", one at a time.                     *)
(*   sv_pose_*    save_func, mode_func: self.pose is read for the entry    *)
(*   dp_save      linear_move_func: nonblocking_move has returned          *)
(***************************************************************************)
\* the four directional-pad moves: +-linear_speed along x or y
LinearMoves ==
    { <<Deg(-DefaultLinearSpeed), 0, 0, 0>>, <<Deg(DefaultLinearSpeed), 0, 0, 0>>,
      <<0, Deg(-DefaultLinearSpeed), 0, 0>>, <<0, Deg(DefaultLinearSpeed), 0, 0>> }

\* what self.pose can return: a pose of the arm, or zeros on a failure
PoseSamples == { <<Deg(200), Deg(10), Deg(50), 0>>, ZeroVec }

\* indicate_mode: the microphone LED is off in ABSOLUTE mode, on otherwise
IndicateMode(c, md) == [c EXCEPT !.mic_led = (md # "ABSOLUTE")]

\* the controller's reader thread delivers events while the handle is open
\* and reporting; the callback it calls is the one its slot holds
Delivers(key) ==
    /\ controller.open /\ controller.states
    /\ controller.installed[Slot(key)] # NoCallback

\* a handler starts: the thread's record is the new call's
Started(pc, op) == [HandlerIdle EXCEPT !.pc = pc, !.op = op]

\* cross: save_func
SavePressed(h) ==
    /\ handler[h].pc = "idle"
    /\ audit.edges < MaxEdges
    /\ handler' = [handler EXCEPT ![h] = Started("sv_pose_wait", "save")]
    /\ audit' = [audit EXCEPT !.edges = @ + 1, !.raised = "none"]
    /\ UNCHANGED <<recorder_vars, arm_vars, dashboard_lock, ctl, sent, feed, recordings,
                   controller, end_effector>>

\* square: mode_func; entering RELATIVE saves the current pose first
ModePressed(h) ==
    /\ handler[h].pc = "idle"
    /\ Delivers("square_pressed")
    /\ audit.edges < MaxEdges
    /\ IF mode = "ABSOLUTE"
       THEN /\ mode' = "RELATIVE"
            /\ handler' = [handler EXCEPT ![h] = Started("sv_pose_wait", "mode")]
            /\ controller' = controller
       ELSE /\ mode' = "ABSOLUTE"
            /\ handler' = [handler EXCEPT ![h] = Started("idle", "mode")]
            /\ controller' = IndicateMode(controller, mode')
    /\ audit' = [audit EXCEPT !.edges = @ + 1, !.raised = "none"]
    /\ UNCHANGED <<running, active_joint, controller_buffer, memory, arm_vars,
                   dashboard_lock, ctl, sent, feed, recordings, end_effector>>

\* self.pose returns and self.save appends the ABSOLUTE entry
SaveReturn(h) ==
    /\ handler[h].pc = "sv_pose_read"
    /\ dashboard_lock = h
    /\ dashboard_lock' = "free"
    /\ \E pose \in PoseSamples :
          /\ pose # ZeroVec => link_up
          /\ pose = ZeroVec => MayFail
          /\ memory' = Save(memory, "ABSOLUTE", JOINT, pose)
          /\ feed' = IF pose = ZeroVec THEN LogRobot(feed, "Error getting pose")
                     ELSE feed
    /\ Len(feed') <= MaxFeed
    /\ handler' = [handler EXCEPT ![h].pc = "idle"]
    /\ controller' = IF handler[h].op = "mode" THEN IndicateMode(controller, mode)
                     ELSE controller
    /\ audit' = [audit EXCEPT !.appended = @ + 1]
    /\ UNCHANGED <<running, mode, active_joint, controller_buffer, arm_vars, ctl,
                   sent, recordings, end_effector>>

\* delete_func(True): if state and self.memory: del self.memory[-1]
\* (del on an empty list raises IndexError)
DeleteFuncUnguarded(mem) ==
    IF mem # <<>> THEN [memory |-> SubSeq(mem, 1, Len(mem) - 1), raised |-> "none"]
    ELSE [memory |-> mem, raised |-> "IndexError"]
DeleteFunc(mem) ==
    IF mem # <<>> THEN [memory |-> SubSeq(mem, 1, Len(mem) - 1), raised |-> "none"]
    ELSE [memory |-> mem, raised |-> "none"]

\* triangle: delete_func
DeletePressed(h) ==
    /\ handler[h].pc = "idle"
    /\ audit.edges < MaxEdges
    /\ handler' = [handler EXCEPT ![h] = Started("idle", "delete")]
    /\ LET deleted == DeleteFunc(memory)
       IN  /\ memory' = deleted.memory
           /\ audit' = [audit EXCEPT !.edges = @ + 1,
                                     !.deleted = @ + Len(memory) - Len(deleted.memory),
                                     !.raised = deleted.raised]
    /\ UNCHANGED <<running, mode, active_joint, controller_buffer, arm_vars,
                   dashboard_lock, ctl, sent, feed, recordings,
                   controller, end_effector>>

\* a directional-pad edge: linear_move_func calls nonblocking_move
DpadPressed(h) ==
    /\ handler[h].pc = "idle"
    /\ audit.edges < MaxEdges
    /\ \E movement \in LinearMoves :
          handler' = [handler EXCEPT ![h] =
             [Started("nb_send", "dpad") EXCEPT !.func = "move_linear_relative",
                                                !.arg = movement]]
    /\ audit' = [audit EXCEPT !.edges = @ + 1, !.raised = "none"]
    /\ UNCHANGED <<recorder_vars, arm_vars, dashboard_lock, ctl, sent, feed, recordings,
                   controller, end_effector>>

\* if self.mode == MemoryType.RELATIVE and result: self.save(...)
DpadSave(h) ==
    /\ handler[h].pc = "dp_save"
    /\ handler' = [handler EXCEPT ![h].pc = "idle"]
    /\ IF mode = "RELATIVE" /\ handler[h].result
       THEN /\ memory' = Save(memory, "RELATIVE", LINEAR, PyList(handler[h].arg))
            /\ audit' = [audit EXCEPT !.appended = @ + 1]
       ELSE UNCHANGED <<memory, audit>>
    /\ UNCHANGED <<running, mode, active_joint, controller_buffer, arm_vars,
                   dashboard_lock, ctl, sent, feed, recordings,
                   controller, end_effector>>

\* the pins of the end effector: EndEffectorPins(power, direction)
PowerPin == 13
DirectionPin == 12

\* gripper_func and suction_cup_func: if state == 0 it becomes 1, elif state == 1
\* it becomes 0, any other value stays
ToggledStateLatched(s) == IF s = 0 THEN 1 ELSE s
ToggledState(s) == IF s = 0 THEN 1 ELSE IF s = 1 THEN 0 ELSE s

\* the hardware action and the pin rows the handler records, by end effector
\* and by the state before the press
EndEffectorFunc(kind, s) ==
    CASE kind = "GRIPPER" /\ s = 0 ->
            [action |-> "close_gripper", motion_type |-> GRIPPER,
             rows |-> << <<PowerPin, 0>>, <<DirectionPin, 0>>, <<PowerPin, 1>> >>]
      [] kind = "GRIPPER" /\ s = 1 ->
            [action |-> "open_gripper", motion_type |-> GRIPPER,
             rows |-> << <<PowerPin, 0>>, <<DirectionPin, 1>>, <<PowerPin, 1>> >>]
      [] kind = "SUCTION_CUP" /\ s = 0 ->
            [action |-> "suck", motion_type |-> SUCTION_CUP,
             rows |-> << <<DirectionPin, 0>>, <<PowerPin, 0>> >>]
      [] kind = "SUCTION_CUP" /\ s = 1 ->
            [action |-> "unsuck", motion_type |-> SUCTION_CUP,
             rows |-> << <<DirectionPin, 0>>, <<PowerPin, 1>> >>]

\* close_gripper, open_gripper, suck, unsuck: the action is issued to the arm
HardwareAction(ee, name) == [ee EXCEPT !.actions = Append(@, name)]

\* the end effector whose function the circle slot holds
CircleBound == controller.installed[Slot("circle_pressed")].circle

\* circle, bound to gripper_func or suction_cup_func; the release edge does
\* nothing, and so does a press in a state that is neither 0 nor 1
EndEffectorPressed(h) ==
    /\ handler[h].pc = "idle"
    /\ Delivers("circle_pressed")
    /\ CircleBound # "NO_END_EFFECTOR"
    /\ Len(end_effector.actions) < MaxToggles
    /\ handler' = [handler EXCEPT ![h] = Started("idle", "end_effector")]
    /\ \E state \in BOOLEAN :
          IF state /\ end_effector.state \in {0, 1}
          THEN LET f == EndEffectorFunc(CircleBound, end_effector.state)
               IN  /\ end_effector' =
                         HardwareAction([end_effector EXCEPT !.state = ToggledState(@)],
                                        f.action)
                   /\ memory' = Save(memory, "END_EFFECTOR", f.motion_type, f.rows)
                   /\ audit' = [audit EXCEPT !.appended = @ + 1, !.raised = "none"]
          ELSE /\ audit' = [audit EXCEPT !.raised = "none"]
               /\ UNCHANGED <<memory, end_effector>>
    /\ UNCHANGED <<running, mode, active_joint, controller_buffer, arm_vars,
                   dashboard_lock, ctl, sent, feed, recordings, controller>>

\* cycle_joint_func(True): op(self.active_joint, 1) % self.number_of_joints,
\* op being operator.add (R1) or operator.sub (L1), here +1 or -1; Python's %
\* takes the sign of the divisor
CycleJointTruncated(op, aj) ==
    IF aj + op < 0 THEN aj + op ELSE (aj + op) % number_of_joints
CycleJointFunc(op, aj) == (aj + op) % number_of_joints

\* R1 or L1 changes: the press edge cycles the active joint and lights the
\* light bar in its colour, the release edge does nothing
CycleJointChanged(h) ==
    /\ handler[h].pc = "idle"
    /\ Len(audit.cycled) < MaxCycles
    /\ \E op \in {1, -1}, state \in BOOLEAN :
          /\ Delivers(IF op = 1 THEN "r1_changed" ELSE "l1_changed")
          /\ active_joint' = IF state THEN CycleJointFunc(op, active_joint)
                             ELSE active_joint
          /\ controller' = IF state THEN [controller EXCEPT !.light = active_joint']
                           ELSE controller
          /\ audit' = [audit EXCEPT !.raised = "none",
                          !.cycled = Append(@, [op |-> op, state |-> state,
                                                from |-> active_joint,
                                                to |-> active_joint'])]
    /\ handler' = [handler EXCEPT ![h] = Started("idle", "cycle")]
    /\ UNCHANGED <<running, mode, controller_buffer, memory, arm_vars, dashboard_lock,
                   ctl, sent, feed, recordings, end_effector>>

(***************************************************************************)
(* Dashboard: the status poll, robot_is_alive, run by the dashboard's      *)
(* worker thread "dash".                                                   *)
(***************************************************************************)
AlivePoll ==
    /\ handler["dash"].pc = "idle"
    /\ handler' = [handler EXCEPT !["dash"] = Started("alive_wait", "alive")]
    /\ UNCHANGED <<recorder_vars, arm_vars, dashboard_lock, ctl, sent, audit, feed, recordings,
                   controller, end_effector>>

\* GetPose returns (True) or raises (False)
AliveReturn ==
    /\ handler["dash"].pc = "alive_read"
    /\ dashboard_lock = "dash"
    /\ \E alive \in BOOLEAN :
          /\ dashboard_lock' = WithExit("dash", ~alive)
          /\ alive => link_up
          /\ ~alive => MayFail
          /\ handler' = [handler EXCEPT !["dash"] = Returned(@, alive)]
    /\ UNCHANGED <<recorder_vars, arm_vars, ctl, sent, audit, feed, recordings,
                   controller, end_effector>>

\* the dashboard's clear-error button: RobotInterface.clear_error reads
\* error_id for its log line (nb_log2_*), then ClearError, sleep and
\* EnableRobot under the lock (nb_clear_*)
ClearErrorPressed ==
    /\ handler["dash"].pc = "idle"
    /\ audit.clears < MaxClears
    /\ handler' = [handler EXCEPT !["dash"] = Started("nb_log2_wait", "clear_error")]
    /\ audit' = [audit EXCEPT !.clears = @ + 1, !.raised = "none"]
    /\ UNCHANGED <<recorder_vars, arm_vars, dashboard_lock, ctl, sent, feed, recordings,
                   controller, end_effector>>

ClearError ==
    \/ ClearErrorPressed \/ HandlerAcquire("dash")
    \/ NbLogReturn("dash") \/ NbClearReturn("dash")

(***************************************************************************)
(* Use of the arm's channel                                                *)
(***************************************************************************)
\* the threads whose motion command is sent and whose Sync has not returned
MotionInFlight ==
    {t \in CtlIds : ctl[t].pc = "sync"} \cup {h \in HandlerIds : handler[h].pc = "nb_sync"}

\* the threads inside a telemetry read (pose, angles, error_id, robot_is_alive)
TelemetryReading ==
    {t \in CtlIds : ctl[t].pc \in {"angles_read", "pose_read", "dangles_read"}}
    \cup {h \in HandlerIds : handler[h].pc \in {"nb_err_read", "nb_log1_read",
             "nb_log2_read", "rp_log3_read", "sv_pose_read", "alive_read"}}

(***************************************************************************)
(* SpecChannel: one control thread, the controller's thread (directional-  *)
(* pad edges) and the dashboard's status poll, interleaved                 *)
(***************************************************************************)
HeldTrigger == [BufferZero EXCEPT !.joint_pos = TriggerLevel(TriggerMax)]

InitChannel ==
    /\ running = TRUE
    /\ mode = "RELATIVE"
    /\ active_joint = number_of_joints \div 2
    /\ controller_buffer = HeldTrigger
    /\ memory = <<>>
    /\ arm_angles = <<0, 0, Deg(165), 0>>
    /\ arm_error = FALSE
    /\ link_up = TRUE
    /\ dashboard_lock = "free"
    /\ ctl = [t \in CtlIds |-> IF t = "ctl1" THEN [CtlUnborn EXCEPT !.pc = "loop"]
                               ELSE CtlUnborn]
    /\ handler = [h \in HandlerIds |-> HandlerIdle]
    /\ feed = StartedFeed
    /\ recordings = NoFile
    /\ controller = ConnectedController
    /\ end_effector = NoEndEffector
    /\ sent = <<>>
    /\ audit = AuditZero

NextChannel ==
    \/ ControlThread("ctl1")
    \/ DpadPressed("cb") \/ NonblockingMove("cb") \/ DpadSave("cb")
    \/ AlivePoll \/ HandlerAcquire("dash") \/ AliveReturn

SpecChannel == InitChannel /\ [][NextChannel]_vars

(* C16: after every motion command, of a control tick, of a directional-pad *)
(* edge or of a replay, the arm's error state is polled before the next     *)
(* motion command is sent, and an error it holds is cleared: a command is   *)
(* sent only when the one before it was followed by a poll and the arm      *)
(* holds no error.                                                          *)
C16_PollAfterMotion ==
    [][Len(sent') > Len(sent) => audit.unpolled = 0 /\ ~arm_error]_vars

(* C1: access to the arm's channel is mutually exclusive: while a motion   *)
(* command is in flight (sent, its Sync not returned) no telemetry read    *)
(* and no other motion command is executing, and no two telemetry reads    *)
(* overlap.                                                                *)
C1_ChannelExclusive ==
    /\ Cardinality(TelemetryReading) <= 1
    /\ MotionInFlight # {} =>
          Cardinality(MotionInFlight) = 1 /\ TelemetryReading = {}

(***************************************************************************)
(* SpecOverlap: the circle button's replay on the controller's thread      *)
(* while the control thread ticks with a trigger held                      *)
(***************************************************************************)
OverlapMemorySamples ==
    { << MemoryEntry("RELATIVE", <<Deg(1), 0, 0, 0>>, JOINT),
         MemoryEntry("RELATIVE", <<0, Deg(5), 0, 0>>, LINEAR) >>,
      << MemoryEntry("ABSOLUTE", AbsoluteValue, JOINT) >> }

InitOverlap ==
    /\ running = TRUE
    /\ mode = "ABSOLUTE"
    /\ active_joint = number_of_joints \div 2
    /\ controller_buffer = HeldTrigger
    /\ memory \in OverlapMemorySamples
    /\ arm_angles = <<0, 0, Deg(165), 0>>
    /\ arm_error = FALSE
    /\ link_up = TRUE
    /\ dashboard_lock = "free"
    /\ ctl = [t \in CtlIds |-> IF t = "ctl1" THEN [CtlUnborn EXCEPT !.pc = "loop"]
                               ELSE CtlUnborn]
    /\ handler = [h \in HandlerIds |-> HandlerIdle]
    /\ feed = StartedFeed
    /\ recordings = NoFile
    /\ controller = ConnectedController
    /\ end_effector = NoEndEffector
    /\ sent = <<>>
    /\ audit = AuditZero

NextOverlap == ControlThread("ctl1") \/ Replay("cb") \/ NonblockingMove("cb")

SpecOverlap == InitOverlap /\ [][NextOverlap]_vars

\* a thread is inside replay
Replaying(h) == handler[h].op = "replay" /\ handler[h].pc # "idle"

(* C3: while a replay is executing no two motion commands are in flight    *)
(* at the same time: a replayed entry's Sync has returned before the next  *)
(* motion command of any origin is sent.                                   *)
C3_ReplaySequential ==
    (\E h \in HandlerIds : Replaying(h)) => Cardinality(MotionInFlight) <= 1

(***************************************************************************)
(* ControllerInterface.connect_controller, run by thread h (the main       *)
(* thread in __init__, the dashboard's thread in reconnect).  The device   *)
(* reports its state from the library's own reader thread; states is None  *)
(* until the first report.  handler[h].i is the local variable retries.    *)
(*   cc_check     the while condition is evaluated                         *)
(*   cc_sleep     "Connecting" is logged, time.sleep(1)                    *)
(***************************************************************************)
LogController(f, msg) == AddFeed(f, msg, "Controller")

\* the light bar of a new handle: the device's own colour, no joint's hue
DeviceLight == -1
\* pydualsense.pydualsense(); init(): a new device object, no report yet
ConnectBegin(h) ==
    /\ handler[h].pc = "cc_begin"
    /\ controller' = [states |-> FALSE, open |-> TRUE, mic_led |-> FALSE,
                      light |-> DeviceLight,
                      keymap |-> controller.keymap,
                      installed |-> Installed(NoCallback)]
    /\ handler' = [handler EXCEPT ![h] = [@ EXCEPT !.pc = "cc_check", !.i = 0]]
    /\ UNCHANGED <<recorder_vars, arm_vars, dashboard_lock, ctl, sent, audit, feed,
                   recordings, end_effector>>

\* the device's first report arrives
DeviceReports ==
    /\ controller.open /\ ~controller.states
    /\ controller' = [controller EXCEPT !.states = TRUE]
    /\ UNCHANGED <<recorder_vars, arm_vars, dashboard_lock, ctl, handler, sent, audit,
                   feed, recordings, end_effector>>

\* while self.controller.states is None and retries < 10; after the loop,
\* if retries == 10: raise ConnectionError
ConnectCheck(h) ==
    /\ handler[h].pc = "cc_check"
    /\ IF ~controller.states /\ handler[h].i < ConnectRetries
       THEN /\ feed' = LogController(feed, "Connecting")
            /\ handler' = [handler EXCEPT ![h].pc = "cc_sleep"]
            /\ audit' = audit
       ELSE IF handler[h].i = ConnectRetries
       THEN /\ feed' = LogController(feed, "Failed to connect to the controller")
            /\ handler' = [handler EXCEPT ![h] = [@ EXCEPT !.pc = "idle",
                                                           !.result = FALSE]]
            /\ audit' = [audit EXCEPT !.raised = "ConnectionError"]
       ELSE /\ feed' = LogController(feed, "Connection successful")
            /\ handler' = [handler EXCEPT ![h] =
                              IF @.op = "reconnect"
                              THEN [@ EXCEPT !.pc = "sc_install", !.i = 0]
                              ELSE Returned(@, TRUE)]
            /\ audit' = audit
    /\ UNCHANGED <<recorder_vars, arm_vars, dashboard_lock, ctl, sent, recordings,
                   controller, end_effector>>

\* the sleep is over: retries += 1
ConnectSleep(h) ==
    /\ handler[h].pc = "cc_sleep"
    /\ handler' = [handler EXCEPT ![h] = [@ EXCEPT !.pc = "cc_check", !.i = @ + 1]]
    /\ UNCHANGED <<recorder_vars, arm_vars, dashboard_lock, ctl, sent, audit, feed,
                   recordings, controller, end_effector>>

ConnectController(h) == ConnectBegin(h) \/ ConnectCheck(h) \/ ConnectSleep(h)

\* ControllerInterface.set_controls: for key, func in keymap.__dict__.items():
\* controller.__setattr__(key, func), one slot in each step; handler[h].i is
\* the number of slots set so far.  After the last one the caller goes on:
\* reconnect restarts the thread, set_end_effector returns
SetControls(h) ==
    /\ handler[h].pc = "sc_install"
    /\ handler[h].i < Len(KeymapFields)
    /\ controller' = [controller EXCEPT !.installed[handler[h].i + 1] = controller.keymap]
    /\ handler' = [handler EXCEPT ![h] =
                      IF @.i + 1 < Len(KeymapFields) THEN [@ EXCEPT !.i = @ + 1]
                      ELSE IF @.op = "reconnect"
                      THEN [@ EXCEPT !.pc = "rc_start", !.i = @ + 1]
                      ELSE [Returned(@, TRUE) EXCEPT !.i = @ + 1]]
    /\ UNCHANGED <<recorder_vars, arm_vars, dashboard_lock, ctl, sent, audit, feed,
                   recordings, end_effector>>

(***************************************************************************)
(* RobotRecorder.reconnect, run by the dashboard's worker thread (the      *)
(* reconnect button).                                                      *)
(*   rc_sleep     running is False; time.sleep(0.5); default_keymap; the   *)
(*                controller is closed if it is alive                      *)
(*   rc_close_*   RobotInterface.reconnect: close_robot                    *)
(*   rc_connect   sleep(0.5), connect_robot                                *)
(*   rc_init_*    init_robot: ClearError, EnableRobot under the lock       *)
(*   cc_*         connect_controller                                       *)
(*   sc_install   set_controls                                             *)
(*   rc_start     running = True, Thread.__init__, start                   *)
(***************************************************************************)
\* the threads that run RobotRecorder.run and have not left it
LiveControlThreads == {t \in CtlIds : ctl[t].pc \notin {"unborn", "dead", "crashed"}}

ReconnectBegin ==
    /\ handler["dash"].pc = "idle"
    /\ audit.edges < MaxEdges
    /\ LiveControlThreads # CtlIds
    /\ running' = FALSE
    /\ handler' = [handler EXCEPT !["dash"] =
                       [Started("rc_sleep", "reconnect") EXCEPT !.snap = memory]]
    /\ audit' = [audit EXCEPT !.edges = @ + 1, !.raised = "none"]
    /\ UNCHANGED <<mode, active_joint, controller_buffer, memory, arm_vars,
                   dashboard_lock, ctl, sent, feed, recordings,
                   controller, end_effector>>

\* the sleep is over, whatever the control thread has done meanwhile;
\* default_keymap builds a new keymap, controller.close() if
\* controller_is_alive(), and RobotInterface.reconnect logs its two lines
ReconnectSleep ==
    /\ handler["dash"].pc = "rc_sleep"
    /\ handler' = [handler EXCEPT !["dash"].pc = "rc_close_wait"]
    /\ controller' = [controller EXCEPT
                         !.keymap = DefaultKeymap(@.version + 1, end_effector.kind),
                         !.open = FALSE]
    /\ feed' = LogRobot(LogRobot(feed, "Connection lost"), "Trying to reconnect")
    /\ Len(feed') <= MaxFeed
    /\ UNCHANGED <<recorder_vars, arm_vars, dashboard_lock, ctl, sent, audit, recordings,
                   end_effector>>

\* close_robot: both sockets are closed
ReconnectClose ==
    /\ handler["dash"].pc = "rc_close"
    /\ dashboard_lock = "dash"
    /\ dashboard_lock' = "free"
    /\ link_up' = FALSE
    /\ handler' = [handler EXCEPT !["dash"].pc = "rc_connect"]
    /\ UNCHANGED <<recorder_vars, arm_angles, arm_error, ctl, sent, audit, feed, recordings,
                   controller, end_effector>>

\* connect_robot: new sockets, or the failure is raised again
ReconnectConnect ==
    /\ handler["dash"].pc = "rc_connect"
    /\ \E connected \in BOOLEAN :
          IF connected
          THEN /\ link_up' = TRUE
               /\ handler' = [handler EXCEPT !["dash"].pc = "rc_init_wait"]
               /\ audit' = audit
               /\ feed' = LogRobot(LogRobot(feed, "Connecting"), "Connection successful")
          ELSE /\ link_up' = link_up
               /\ Raised("dash", "ConnectionError")
               /\ feed' = LogRobot(LogRobot(feed, "Connecting"), "Connection failure")
    /\ Len(feed') <= MaxFeed
    /\ UNCHANGED <<recorder_vars, arm_angles, arm_error, dashboard_lock, ctl, sent,
                   recordings, controller, end_effector>>

\* init_robot: ClearError, sleep, EnableRobot inside "with dashboard_lock";
\* nothing catches an exchange that fails on the reopened link, the lock is
\* released and the exception leaves reconnect
ReconnectInit ==
    /\ handler["dash"].pc = "rc_init"
    /\ dashboard_lock = "dash"
    /\ \E answered \in BOOLEAN :
          /\ dashboard_lock' = WithExit("dash", ~(answered /\ link_up))
          /\ IF answered /\ link_up
             THEN /\ arm_error' = FALSE
                  /\ handler' = [handler EXCEPT !["dash"].pc = "cc_begin"]
                  /\ audit' = audit
             ELSE /\ MayFail
                  /\ arm_error' = arm_error
                  /\ Raised("dash", "TransportError")
    /\ UNCHANGED <<recorder_vars, arm_angles, link_up, ctl, sent, feed, recordings,
                   controller, end_effector>>

\* self.running = True; threading.Thread.__init__(self); self.start(): a new
\* thread enters run
ReconnectStart ==
    /\ handler["dash"].pc = "rc_start"
    /\ running' = TRUE
    /\ \E t \in CtlIds \ LiveControlThreads :
          /\ ctl' = [ctl EXCEPT ![t] = [CtlUnborn EXCEPT !.pc = "loop"]]
          /\ audit' = [audit EXCEPT !.current = t]
    /\ handler' = [handler EXCEPT !["dash"] = Returned(@, TRUE)]
    /\ feed' = AddFeed(feed, "Started recording", "Recorder")
    /\ Len(feed') <= MaxFeed
    /\ UNCHANGED <<mode, active_joint, controller_buffer, memory, arm_vars,
                   dashboard_lock, sent, recordings, controller, end_effector>>

Reconnect ==
    \/ ReconnectBegin \/ ReconnectSleep \/ HandlerAcquire("dash") \/ ReconnectClose
    \/ ReconnectConnect \/ ReconnectInit
    \/ ConnectController("dash") \/ DeviceReports \/ SetControls("dash")
    \/ ReconnectStart

(***************************************************************************)
(* SpecReconnect: the control thread and the reconnect button              *)
(***************************************************************************)
InitReconnect ==
    /\ running = TRUE
    /\ mode = "RELATIVE"
    /\ active_joint = number_of_joints \div 2
    /\ controller_buffer = HeldTrigger
    /\ memory = <<>>
    /\ arm_angles = <<0, 0, Deg(240), 0>>
    /\ arm_error = FALSE
    /\ link_up = TRUE
    /\ dashboard_lock = "free"
    /\ ctl = [t \in CtlIds |-> IF t = "ctl1" THEN [CtlUnborn EXCEPT !.pc = "loop"]
                               ELSE CtlUnborn]
    /\ handler = [h \in HandlerIds |-> HandlerIdle]
    /\ feed = StartedFeed
    /\ recordings = NoFile
    /\ controller = ConnectedController
    /\ end_effector = NoEndEffector
    /\ sent = <<>>
    /\ audit = AuditZero

NextReconnect == (\E t \in CtlIds : ControlThread(t)) \/ Reconnect

SpecReconnect == InitReconnect /\ [][NextReconnect]_vars

(* C4: at every moment at most one control thread is executing control     *)
(* ticks, during and after reconnect(): the new control thread is started  *)
(* only after the previous one has left its loop.                          *)
C4_OneControlThread == Cardinality(LiveControlThreads) <= 1

\* a is an initial part of b
IsPrefix(a, b) == Len(a) <= Len(b) /\ SubSeq(b, 1, Len(a)) = a
\* the dashboard's thread is inside reconnect; the step in which it returns
InReconnect == handler["dash"].op = "reconnect" /\ handler["dash"].pc # "idle"
ReconnectReturns == handler["dash"].pc = "rc_start" /\ handler'["dash"].pc = "idle"

(* C13: when reconnect() returns, having reopened the transports, running   *)
(* is true and a new control thread is in its loop; from the call to the    *)
(* return no step of any thread removes or changes an entry of the memory   *)
(* or of the feed: both keep what they held, in order, and only grow.       *)
C13_ReconnectPreserves ==
    [][/\ ReconnectReturns =>
             /\ running'
             /\ \E t \in CtlIds : ctl[t].pc \in {"unborn", "dead", "crashed"}
                                   /\ ctl'[t].pc = "loop"
             /\ IsPrefix(handler["dash"].snap, memory')
       /\ (InReconnect \/ InReconnect') =>
             IsPrefix(memory, memory') /\ IsPrefix(feed, feed')]_vars

\* reconnect has returned: the memory held an entry when it was called, the
\* feed has grown by its lines, and the new thread is ticking
C13_Witness ==
    /\ handler["dash"].pc = "idle" /\ handler["dash"].op = "reconnect"
    /\ Len(handler["dash"].snap) >= 1
    /\ IsPrefix(handler["dash"].snap, memory)
    /\ IsPrefix(StartedFeed, feed) /\ Len(feed) >= Len(StartedFeed) + 5
    /\ running /\ link_up
    /\ \E t \in CtlIds : ctl[t].pc = "tick"

\* the dashboard's thread is inside RobotInterface.reconnect
InRobotReconnect ==
    /\ handler["dash"].op = "reconnect"
    /\ handler["dash"].pc \in {"rc_close_wait", "rc_close", "rc_connect",
                                "rc_init_wait", "rc_init"}
\* the step of RobotInterface.reconnect that ends it with an exception
ReconnectRaises == InRobotReconnect /\ handler'["dash"].pc = "idle"
\* the order of the steps of reconnect: close_robot, the sleep and
\* connect_robot, init_robot, the restart
ReconnectStep(from, to) == handler["dash"].pc = from /\ handler'["dash"].pc = to

(* C36: RobotInterface.reconnect closes both channels, waits, opens both    *)
(* channels and then runs the enable sequence (clear error, wait, enable):  *)
(* the channels are closed before they are opened, the enable sequence is   *)
(* sent only on the reopened link, and reconnect raises only in the step    *)
(* that fails to open a channel.                                            *)
C36_ReconnectOrder ==
    [][/\ (InRobotReconnect /\ handler'["dash"].pc # handler["dash"].pc) =>
             \/ ReconnectStep("rc_close_wait", "rc_close")
             \/ ReconnectStep("rc_close", "rc_connect") /\ ~link_up'
             \/ ReconnectStep("rc_connect", "rc_init_wait") /\ ~link_up /\ link_up'
             \/ ReconnectStep("rc_init_wait", "rc_init") /\ link_up
             \/ ReconnectStep("rc_init", "cc_begin") /\ link_up /\ ~arm_error'
             \/ ReconnectRaises
       /\ ReconnectRaises =>
             /\ handler["dash"].pc = "rc_connect"
             /\ ~link_up /\ ~link_up'
      ]_vars

(***************************************************************************)
(* SpecMemory: the writers of the memory log interleaved: the control      *)
(* thread's ticks, the controller's save, mode and delete edges, and the   *)
(* dashboard's bundle command                                              *)
(***************************************************************************)
LoggedMemorySamples ==
    { << MemoryEntry("ABSOLUTE", AbsoluteValue, JOINT) >>,
      << MemoryEntry("RELATIVE", <<0, 0, Deg(5), 0>>, JOINT),
         MemoryEntry("RELATIVE", <<0, 0, Deg(5), 0>>, JOINT) >> }

InitMemory ==
    /\ running = TRUE
    /\ mode = "RELATIVE"
    /\ active_joint = number_of_joints \div 2
    /\ controller_buffer = HeldTrigger
    /\ memory \in LoggedMemorySamples
    /\ arm_angles = <<0, 0, Deg(240), 0>>
    /\ arm_error = FALSE
    /\ link_up = TRUE
    /\ dashboard_lock = "free"
    /\ ctl = [t \in CtlIds |-> IF t = "ctl1" THEN [CtlUnborn EXCEPT !.pc = "loop"]
                               ELSE CtlUnborn]
    /\ handler = [h \in HandlerIds |-> HandlerIdle]
    /\ feed = StartedFeed
    /\ recordings = NoFile
    /\ controller = ConnectedController
    /\ end_effector = NoEndEffector
    /\ sent = <<>>
    /\ audit = [AuditZero EXCEPT !.loaded = Len(memory)]

NextMemory ==
    \/ ControlThread("ctl1")
    \/ SavePressed("cb") \/ ModePressed("cb") \/ HandlerAcquire("cb")
    \/ SaveReturn("cb") \/ DeletePressed("cb")
    \/ BundleBegin \/ BundleEnd

SpecMemory == InitMemory /\ [][NextMemory]_vars

(* C5: accesses to the memory log are serialized: an entry appended by a   *)
(* control tick or by a save or mode edge is never lost                    *)
(* because it interleaved with a bundle or a delete edge; once no bundle   *)
(* is under way the memory holds every entry that was loaded or appended   *)
(* and not explicitly deleted or merged.                                   *)
C5_NoLostAppend ==
    handler["dash"].pc # "bundle" =>
        Len(memory) >= audit.loaded + audit.appended - audit.deleted - audit.merged

(***************************************************************************)
(* The controller's axis callbacks, run by the dispatcher thread "cb":     *)
(* r2_changed, l2_changed (button2_recording_func) and                     *)
(* left_joystick_changed, right_joystick_changed (joystick_recording_func).*)
(* Each stores one item of controller_buffer.                              *)
(***************************************************************************)
TriggerKeys == {"joint_pos", "joint_neg"}
JoystickKeys == {"left_joystick", "right_joystick"}
\* levels the device reports: below the threshold, and full
TriggerStates == {3, 255}
JoystickStates == {-128, 4}

TriggerChanged(h) ==
    /\ handler[h].pc = "idle"
    /\ audit.callbacks < MaxInputs
    /\ \E key \in TriggerKeys, state \in TriggerStates :
          /\ controller_buffer' = [controller_buffer EXCEPT ![key] = TriggerLevel(state)]
          /\ audit' = [audit EXCEPT !.callbacks = @ + 1, !.inputs[key] = state]
    /\ UNCHANGED <<running, mode, active_joint, memory, arm_vars, dashboard_lock,
                   ctl, handler, feed, recordings, sent, controller, end_effector>>

JoystickChanged(h) ==
    /\ handler[h].pc = "idle"
    /\ audit.callbacks < MaxInputs
    /\ \E key \in JoystickKeys, stateX \in JoystickStates :
          /\ controller_buffer' = [controller_buffer EXCEPT ![key] = JoystickLevel(stateX)]
          /\ audit' = [audit EXCEPT !.callbacks = @ + 1, !.inputs[key] = stateX]
    /\ UNCHANGED <<running, mode, active_joint, memory, arm_vars, dashboard_lock,
                   ctl, handler, feed, recordings, sent, controller, end_effector>>

(***************************************************************************)
(* SpecInput: the axis callbacks and one control thread                    *)
(***************************************************************************)
InitInput ==
    /\ running = TRUE
    /\ mode = "ABSOLUTE"
    /\ active_joint = number_of_joints \div 2
    /\ controller_buffer = BufferZero
    /\ memory = <<>>
    /\ arm_angles = <<0, 0, Deg(165), 0>>
    /\ arm_error = FALSE
    /\ link_up = TRUE
    /\ dashboard_lock = "free"
    /\ ctl = [t \in CtlIds |-> IF t = "ctl1" THEN [CtlUnborn EXCEPT !.pc = "loop"]
                               ELSE CtlUnborn]
    /\ handler = [h \in HandlerIds |-> HandlerIdle]
    /\ feed = StartedFeed
    /\ recordings = NoFile
    /\ controller = ConnectedController
    /\ end_effector = NoEndEffector
    /\ sent = <<>>
    /\ audit = AuditZero

NextInput == ControlThread("ctl1") \/ TriggerChanged("cb") \/ JoystickChanged("cb")

SpecInput == InitInput /\ [][NextInput]_vars

\* what the callback of a field stores for a level the device reports
LevelOf(key, state) ==
    IF key \in TriggerKeys
    THEN (IF state > InputThreshold THEN state * JoystickMax ELSE 0)
    ELSE (IF Abs(state) > InputThreshold THEN state * TriggerMax ELSE 0)
\* the buffer made of the most recent level reported for each field
LatestLevels == [key \in DOMAIN BufferZero |-> LevelOf(key, audit.inputs[key])]
\* the step in which thread t reads one field of the buffer
ReadsField(t) ==
    /\ ctl[t].pc \in {"tick", "read_neg", "read_left", "read_right"}
    /\ ctl'[t].pc = AfterRead(ctl[t].pc)

(* C14: last write wins in the controller buffer: the value a tick reads    *)
(* for a field is the one the most recent callback for that field stored    *)
(* (the initial 0 when there was none), and a tick that reads its four      *)
(* fields after a sequence of callbacks computes its delta from the most    *)
(* recent value of each field.                                              *)
C14_LastWriteWins ==
    [][\A t \in CtlIds :
        ReadsField(t) =>
            LET key == FieldRead(ctl[t].pc)
            IN  /\ ctl'[t].seen[key] = LevelOf(key, audit.inputs[key])
                /\ (ctl[t].pc = "read_right" /\ audit.callbacks = ctl[t].n0)
                   => ctl'[t].intended = IntendedMovement(LatestLevels, active_joint)
      ]_vars

\* the callbacks have all written one and the same field, the last with the
\* full level, and the tick that followed has computed its delta from it
C14_Witness ==
    \E t \in CtlIds :
        /\ ctl[t].pc = "angles_wait" /\ ctl[t].n0 = MaxInputs
        /\ audit.callbacks = MaxInputs
        /\ audit.inputs = [BufferZero EXCEPT !.left_joystick = -128]
        /\ ctl[t].intended = <<Deg(-5), 0, 0, 0>>

(***************************************************************************)
(* MemoryEntry.serialize / from_dict and RobotRecorder.dump_memory /       *)
(* load_memory, run by the dashboard's worker thread (and by stop).        *)
(***************************************************************************)
\* the rows of an end-effector array (a 2-D ndarray)
GripperRows == 3
Is2D(v) == IsNdarray(v) /\ Len(v) = GripperRows
\* np.array(list): the ndarray of a list's items
NpArray(l) == Tail(l)

\* the exception serialize ends with, or "none".  The dict is built in the
\* order Type, Value, Motion Type: list(self.value) raises on a member of
\* MotionType, float(el) on a row of a 2-D array, .name on an ndarray.
SerializeError(entry) ==
    IF IsMotionType(entry.value) \/ Is2D(entry.value) THEN "TypeError"
    ELSE IF ~IsMotionType(entry.motion_type) THEN "AttributeError"
    ELSE "none"

\* the dict serialize returns: the value as a list of floats, the enum members
\* by name
Serialize(entry) ==
    [Type |-> entry.type,
     Value |-> IF IsList(entry.value) THEN entry.value ELSE PyList(entry.value),
     MotionType |-> entry.motion_type[1],
     Valid |-> entry.valid]

\* MemoryEntry.from_dict
FromDictByPosition(d) ==
    [MemoryEntry(d.Type, <<d.MotionType>>, NpArray(d.Value)) EXCEPT !.valid = d.Valid]
FromDict(d) ==
    [MemoryEntry(d.Type, NpArray(d.Value), <<d.MotionType>>) EXCEPT !.valid = d.Valid]

\* what load_memory builds from the file
LoadedEntries(file) == [i \in DOMAIN file.entries |-> FromDict(file.entries[i])]

\* dump_memory: open(..., "w") truncates the file, then the list of dicts is
\* built and written; an exception of serialize leaves the file empty
DumpMemory ==
    /\ handler["dash"].pc = "idle"
    /\ IF \E i \in DOMAIN memory : SerializeError(memory[i]) # "none"
       THEN LET i == CHOOSE k \in DOMAIN memory :
                        /\ SerializeError(memory[k]) # "none"
                        /\ \A j \in 1..(k - 1) : SerializeError(memory[j]) = "none"
            IN  /\ recordings' = [exists |-> TRUE, parses |-> FALSE, entries |-> <<>>]
                /\ audit' = [audit EXCEPT !.raised = SerializeError(memory[i])]
                /\ feed' = feed
       ELSE /\ recordings' = [exists |-> TRUE, parses |-> TRUE,
                              entries |-> [i \in DOMAIN memory |-> Serialize(memory[i])]]
            /\ audit' = [audit EXCEPT !.raised = "none"]
            /\ feed' = AddFeed(feed, "Dumped memory", "Recorder")
            /\ Len(feed') <= MaxFeed
    /\ UNCHANGED <<recorder_vars, arm_vars, dashboard_lock, ctl, handler, sent,
                   controller, end_effector>>

\* load_memory: False when there is no file; json.load raises on an empty file;
\* else the memory is the list of the file's entries, and True is returned
LoadMemory ==
    /\ handler["dash"].pc = "idle"
    /\ audit.loads < MaxLoads
    /\ IF ~recordings.exists
       THEN /\ memory' = memory
            /\ audit' = [audit EXCEPT !.raised = "none", !.loads = @ + 1,
                                      !.notfound = @ + 1]
            /\ handler' = [handler EXCEPT !["dash"] =
                              Returned(Started("idle", "load"), FALSE)]
            /\ feed' = feed
       ELSE IF ~recordings.parses
       THEN /\ memory' = memory
            /\ audit' = [audit EXCEPT !.raised = "JSONDecodeError", !.loads = @ + 1]
            /\ handler' = [handler EXCEPT !["dash"] = HandlerIdle]
            /\ feed' = feed
       ELSE /\ memory' = LoadedEntries(recordings)
            /\ audit' = [audit EXCEPT !.raised = "none", !.loads = @ + 1,
                                      !.loaded = Len(memory')]
            /\ handler' = [handler EXCEPT !["dash"] =
                              Returned(Started("idle", "load"), TRUE)]
            /\ feed' = AddFeed(feed, "Loaded memory", "Recorder")
            /\ Len(feed') <= MaxFeed
    /\ UNCHANGED <<running, mode, active_joint, controller_buffer, arm_vars,
                   dashboard_lock, ctl, recordings, sent, controller, end_effector>>

(***************************************************************************)
(* SpecRoundTrip: dump and load on every sample memory                     *)
(***************************************************************************)
InitRoundTrip ==
    /\ running = FALSE
    /\ mode = "ABSOLUTE"
    /\ active_joint = number_of_joints \div 2
    /\ controller_buffer = BufferZero
    /\ memory \in MemorySamples
    /\ arm_angles = ZeroVec
    /\ arm_error = FALSE
    /\ link_up = TRUE
    /\ dashboard_lock = "free"
    /\ ctl = [t \in CtlIds |-> CtlUnborn]
    /\ handler = [h \in HandlerIds |-> HandlerIdle]
    /\ feed = ConstructedFeed
    /\ recordings = NoFile
    /\ controller = ConnectedController
    /\ end_effector = NoEndEffector
    /\ sent = <<>>
    /\ audit = AuditZero

NextRoundTrip == DumpMemory \/ LoadMemory

SpecRoundTrip == InitRoundTrip /\ [][NextRoundTrip]_vars

(***************************************************************************)
(* RobotRecorder.stop, run by the dashboard's worker thread.  join() waits *)
(* for the thread the Thread object stands for since its last __init__     *)
(* and start (audit.current).                                              *)
(*   st_join      "Shutting down" is logged, running is False; join        *)
(*   st_dump      dump_memory                                              *)
(*   st_close_*   close_robot: the dashboard socket under the lock, then   *)
(*                the motion socket                                        *)
(*   st_ctl       self.controller.close()                                  *)
(***************************************************************************)
StopBegin ==
    /\ handler["dash"].pc = "idle"
    /\ audit.stops < MaxStops
    /\ running' = FALSE
    /\ feed' = AddFeed(feed, "Shutting down", "Recorder")
    /\ Len(feed') <= MaxFeed
    /\ handler' = [handler EXCEPT !["dash"] = Started("st_join", "stop")]
    /\ audit' = [audit EXCEPT !.stops = @ + 1, !.raised = "none"]
    /\ UNCHANGED <<mode, active_joint, controller_buffer, memory, arm_vars,
                   dashboard_lock, ctl, sent, recordings, controller, end_effector>>

\* join returns once the joined thread has left run (a thread that was never
\* started cannot be joined: RuntimeError)
StopJoin ==
    /\ handler["dash"].pc = "st_join"
    /\ ctl[audit.current].pc \in {"unborn", "dead", "crashed"}
    /\ IF ctl[audit.current].pc = "unborn"
       THEN Raised("dash", "RuntimeError")
       ELSE /\ handler' = [handler EXCEPT !["dash"].pc = "st_dump"]
            /\ audit' = audit
    /\ UNCHANGED <<recorder_vars, arm_vars, dashboard_lock, ctl, sent, feed,
                   recordings, controller, end_effector>>

\* dump_memory, as in DumpMemory: an exception of serialize ends stop
StopDump ==
    /\ handler["dash"].pc = "st_dump"
    /\ IF \E i \in DOMAIN memory : SerializeError(memory[i]) # "none"
       THEN LET i == CHOOSE k \in DOMAIN memory :
                        /\ SerializeError(memory[k]) # "none"
                        /\ \A j \in 1..(k - 1) : SerializeError(memory[j]) = "none"
            IN  /\ recordings' = [exists |-> TRUE, parses |-> FALSE, entries |-> <<>>]
                /\ Raised("dash", SerializeError(memory[i]))
                /\ feed' = feed
       ELSE /\ recordings' = [exists |-> TRUE, parses |-> TRUE,
                              entries |-> [i \in DOMAIN memory |-> Serialize(memory[i])]]
            /\ handler' = [handler EXCEPT !["dash"].pc = "st_close_wait"]
            /\ audit' = audit
            /\ feed' = AddFeed(feed, "Dumped memory", "Recorder")
            /\ Len(feed') <= MaxFeed
    /\ UNCHANGED <<recorder_vars, arm_vars, dashboard_lock, ctl, sent,
                   controller, end_effector>>

\* close_robot: both sockets are closed
StopCloseRobot ==
    /\ handler["dash"].pc = "st_close"
    /\ dashboard_lock = "dash"
    /\ dashboard_lock' = "free"
    /\ link_up' = FALSE
    /\ handler' = [handler EXCEPT !["dash"].pc = "st_ctl"]
    /\ UNCHANGED <<recorder_vars, arm_angles, arm_error, ctl, sent, audit, feed,
                   recordings, controller, end_effector>>

\* self.controller.close(); time.sleep(1)
StopCloseController ==
    /\ handler["dash"].pc = "st_ctl"
    /\ controller' = [controller EXCEPT !.open = FALSE]
    /\ handler' = [handler EXCEPT !["dash"] = Returned(@, TRUE)]
    /\ UNCHANGED <<recorder_vars, arm_vars, dashboard_lock, ctl, sent, audit, feed,
                   recordings, end_effector>>

Stop ==
    \/ StopBegin \/ StopJoin \/ StopDump \/ HandlerAcquire("dash")
    \/ StopCloseRobot \/ StopCloseController

(***************************************************************************)
(* SpecStop: the control thread, the reconnect button and the stop button  *)
(***************************************************************************)
NextStop == (\E t \in CtlIds : ControlThread(t)) \/ Reconnect \/ Stop

SpecStop == InitReconnect /\ [][NextStop]_vars

\* the steps of stop that persist the memory and that close a link
StopPersists == handler["dash"].pc = "st_dump" /\ recordings' # recordings
StopClosesRobot == handler["dash"].op = "stop" /\ link_up /\ ~link_up'
StopClosesController ==
    handler["dash"].op = "stop" /\ controller.open /\ ~controller'.open

(* C25: stop() sets running to false, joins the control thread, persists    *)
(* the memory, closes the robot link and closes the controller, in this     *)
(* order: the memory is persisted only after the control thread has         *)
(* terminated, and both links stay open until the memory has been           *)
(* persisted.                                                               *)
C25_StopOrder ==
    [][/\ StopPersists => ~running /\ LiveControlThreads = {}
       /\ StopClosesRobot => recordings.exists
       /\ StopClosesController => recordings.exists /\ ~link_up]_vars

(***************************************************************************)
(* SpecLoad: load and dump on a recorder that starts with or without a     *)
(* recordings file of an earlier session                                   *)
(***************************************************************************)
\* a file an earlier session has dumped
EarlierFile ==
    [exists |-> TRUE, parses |-> TRUE,
     entries |-> << Serialize(MemoryEntry("RELATIVE", <<0, Deg(5), 0, 0>>, LINEAR)),
                    Serialize([MemoryEntry("ABSOLUTE", AbsoluteValue, JOINT)
                                  EXCEPT !.valid = FALSE]) >>]

InitLoad ==
    /\ running = FALSE
    /\ mode = "ABSOLUTE"
    /\ active_joint = number_of_joints \div 2
    /\ controller_buffer = BufferZero
    /\ memory \in KeysMemorySamples
    /\ arm_angles = ZeroVec
    /\ arm_error = FALSE
    /\ link_up = TRUE
    /\ dashboard_lock = "free"
    /\ ctl = [t \in CtlIds |-> CtlUnborn]
    /\ handler = [h \in HandlerIds |-> HandlerIdle]
    /\ feed = ConstructedFeed
    /\ recordings \in {NoFile, EarlierFile}
    /\ controller = ConnectedController
    /\ end_effector = NoEndEffector
    /\ sent = <<>>
    /\ audit = AuditZero

NextLoad == LoadMemory \/ DumpMemory

SpecLoad == InitLoad /\ [][NextLoad]_vars

(* C23: load(filename) on a file that does not exist does not raise: it     *)
(* returns false and leaves the memory log exactly as it was; on success it *)
(* returns true and the memory is the deserialized content of the file.     *)
C23_Load ==
    [][LoadMemory =>
        /\ ~recordings.exists =>
              /\ memory' = memory
              /\ audit'.raised = "none"
              /\ handler'["dash"].op = "load" /\ ~handler'["dash"].result
        /\ (recordings.exists /\ recordings.parses) =>
              /\ audit'.raised = "none"
              /\ handler'["dash"].op = "load" /\ handler'["dash"].result
              /\ Len(memory') = Len(recordings.entries)
              /\ \A i \in DOMAIN memory' :
                    /\ memory'[i].type = recordings.entries[i].Type
                    /\ memory'[i].value = Tail(recordings.entries[i].Value)
                    /\ memory'[i].motion_type = <<recordings.entries[i].MotionType>>
                    /\ memory'[i].valid = recordings.entries[i].Valid]_vars

\* a load found no file and left a recorded memory alone; after a dump had
\* written the file, a load returned true with the file's entries
C23_Witness ==
    /\ audit.notfound = 1 /\ audit.loaded = 1
    /\ handler["dash"].op = "load" /\ handler["dash"].result
    /\ memory = << MemoryEntry("ABSOLUTE", AbsoluteValue, JOINT) >>

(* C12: the memory's JSON round trip: after dump_memory the file holds, for *)
(* every entry (ABSOLUTE, RELATIVE and END_EFFECTOR alike), a dict from     *)
(* which from_dict makes an entry equal to the original in type, motion     *)
(* kind, value and valid flag, so that load_memory restores the memory.     *)
C12_RoundTrip ==
    [][DumpMemory => /\ recordings'.parses
                     /\ LoadedEntries(recordings') = memory]_vars

(***************************************************************************)
(* SpecConnect: connect_controller inside reconnect(): running is False,   *)
(* the link to the arm is up again, and the control thread that reconnect  *)
(* did not wait for is still in its batch of ticks                         *)
(***************************************************************************)
ReconnectedFeed ==
    LogRobot(LogRobot(LogRobot(LogRobot(StartedFeed, "Connection lost"),
        "Trying to reconnect"), "Connecting"), "Connection successful")

InitConnect ==
    /\ running = FALSE
    /\ mode = "RELATIVE"
    /\ active_joint = number_of_joints \div 2
    /\ controller_buffer = HeldTrigger
    /\ memory = <<>>
    /\ arm_angles = <<0, 0, Deg(240), 0>>
    /\ arm_error = FALSE
    /\ link_up = TRUE
    /\ dashboard_lock = "free"
    /\ ctl = [t \in CtlIds |-> IF t = "ctl1" THEN [CtlUnborn EXCEPT !.pc = "tick"]
                               ELSE CtlUnborn]
    /\ handler = [h \in HandlerIds |->
                    IF h = "dash" THEN Started("cc_begin", "reconnect")
                    ELSE HandlerIdle]
    /\ feed = ReconnectedFeed
    /\ recordings = NoFile
    /\ controller = [ConnectedController EXCEPT !.open = FALSE]
    /\ end_effector = NoEndEffector
    /\ sent = <<>>
    /\ audit = AuditZero

NextConnect ==
    \/ (\E t \in CtlIds : ControlThread(t))
    \/ ConnectController("dash") \/ DeviceReports
    \/ SetControls("dash") \/ ReconnectStart

SpecConnect == InitConnect /\ [][NextConnect]_vars

\* the step that ends connect_controller
ConnectEnds(h) ==
    handler[h].pc = "cc_check" /\ handler'[h].pc \notin {"cc_check", "cc_sleep"}

(* C24: connect() terminates after at most 10 retries with a fixed sleep    *)
(* between them; it raises ConnectionError if and only if the device never  *)
(* reported live state within that retry budget, and succeeds whenever the  *)
(* device reports live state at one of the checks.                          *)
C24_ConnectBounded ==
    [][\A h \in HandlerIds :
        /\ handler[h].pc \in {"cc_check", "cc_sleep"} => handler'[h].i <= ConnectRetries
        /\ ConnectEnds(h) =>
              /\ controller.states <=> handler'[h].result /\ audit'.raised = "none"
              /\ ~controller.states <=> audit'.raised = "ConnectionError"]_vars

(***************************************************************************)
(* SpecKeys: the controller's buttons on a recorder that is constructed,   *)
(* in either mode, with a memory that is empty, loaded from a file or      *)
(* recorded; the controller's thread runs one handler at a time            *)
(***************************************************************************)
InitKeys ==
    /\ running = FALSE
    /\ mode \in {"ABSOLUTE", "RELATIVE"}
    /\ active_joint = number_of_joints \div 2
    /\ controller_buffer = BufferZero
    /\ memory \in KeysMemorySamples
    /\ arm_angles = <<0, 0, Deg(165), 0>>
    /\ arm_error = FALSE
    /\ link_up = TRUE
    /\ dashboard_lock = "free"
    /\ ctl = [t \in CtlIds |-> CtlUnborn]
    /\ handler = [h \in HandlerIds |-> HandlerIdle]
    /\ feed = ConstructedFeed
    /\ recordings = NoFile
    /\ controller = IndicateMode(ConnectedController, mode)
    /\ end_effector = NoEndEffector
    /\ sent = <<>>
    /\ audit = AuditZero

NextKeys ==
    \/ SavePressed("cb") \/ ModePressed("cb") \/ HandlerAcquire("cb")
    \/ SaveReturn("cb") \/ DeletePressed("cb")
    \/ Replay("cb") \/ NonblockingMove("cb")

SpecKeys == InitKeys /\ [][NextKeys]_vars

\* the step of a delete edge
DeleteEdge ==
    audit'.edges = audit.edges + 1 /\ handler'["cb"] = Started("idle", "delete")
\* the controller's thread is in, or has returned from, a replay that found
\* the memory empty
ReplayedEmpty == handler["cb"].op = "replay" /\ handler["cb"].snap = <<>>

(* C21: operator errors are no-ops: a delete edge on an empty memory leaves *)
(* the memory empty and raises nothing, and a replay of an empty memory     *)
(* sends no motion command, changes no entry and raises nothing.            *)
C21_OperatorNoOps ==
    /\ [][(DeleteEdge /\ memory = <<>>) =>
             memory' = <<>> /\ audit'.raised = "none"]_vars
    /\ [](ReplayedEmpty =>
             /\ Len(sent) = handler["cb"].base
             /\ memory = <<>>
             /\ audit.raised = "none"
             /\ handler["cb"].pc \in {"rp_next", "idle"})

\* a replay of the empty memory has returned, and a delete edge on the empty
\* memory had gone before it
C21_Witness ==
    /\ ReplayedEmpty /\ handler["cb"].pc = "idle"
    /\ audit.edges = 1 /\ audit.deleted = 0
    /\ feed[Len(feed)].message = "Done Replaying"
    /\ mode = "ABSOLUTE"

\* the step of a mode edge, and the step in which its save of the pose returns
ModeEdge ==
    audit'.edges = audit.edges + 1 /\ handler'["cb"].op = "mode"
ModeSaves ==
    /\ handler["cb"].op = "mode"
    /\ handler["cb"].pc = "sv_pose_read"
    /\ handler'["cb"].pc = "idle"

(* C29: each press edge of the mode button flips mode between ABSOLUTE and  *)
(* RELATIVE; a transition ABSOLUTE to RELATIVE appends exactly one          *)
(* ABSOLUTE/JOINT entry holding the current pose, a transition RELATIVE to  *)
(* ABSOLUTE appends nothing, and after the handler the mode LED is on       *)
(* exactly when mode is RELATIVE.                                           *)
C29_ModeToggle ==
    /\ [][ModeEdge =>
            /\ mode' = (IF mode = "ABSOLUTE" THEN "RELATIVE" ELSE "ABSOLUTE")
            /\ memory' = memory
            /\ handler'["cb"].pc = (IF mode = "ABSOLUTE" THEN "sv_pose_wait"
                                    ELSE "idle")]_vars
    /\ [][handler["cb"].op = "mode" /\ handler["cb"].pc = "sv_pose_wait" =>
            memory' = memory]_vars
    /\ [][ModeSaves =>
            /\ Len(memory') = Len(memory) + 1
            /\ SubSeq(memory', 1, Len(memory)) = memory
            /\ LET e == memory'[Len(memory')]
               IN  /\ e.type = "ABSOLUTE"
                   /\ e.motion_type = JOINT
                   /\ e.value \in PoseSamples \ {ZeroVec}]_vars
    /\ [](handler["cb"].op = "mode" /\ handler["cb"].pc = "idle" =>
             (controller.mic_led <=> mode = "RELATIVE"))

\* the step in which the save of a save edge returns
SaveEdgeSaves ==
    /\ handler["cb"].op = "save"
    /\ handler["cb"].pc = "sv_pose_read"
    /\ handler'["cb"].pc = "idle"

(* C31: save and delete edges change the memory only at its tail: a save    *)
(* edge makes the memory the old memory followed by one ABSOLUTE/JOINT      *)
(* entry holding the current cartesian pose, a delete edge on a non-empty   *)
(* memory makes it the old memory without its last entry, and in both       *)
(* cases every other entry, the mode and the active joint are unchanged.    *)
C31_TailOnly ==
    /\ [][SaveEdgeSaves =>
            /\ \E pose \in PoseSamples \ {ZeroVec} :
                  memory' = Append(memory, MemoryEntry("ABSOLUTE", pose, JOINT))
            /\ mode' = mode /\ active_joint' = active_joint]_vars
    /\ [][handler["cb"].op = "save" /\ ~SaveEdgeSaves => memory' = memory]_vars
    /\ [][DeleteEdge /\ memory # <<>> =>
            /\ memory' = SubSeq(memory, 1, Len(memory) - 1)
            /\ mode' = mode /\ active_joint' = active_joint]_vars

(***************************************************************************)
(* SpecDpad: the edges of the directional pad, in both modes               *)
(***************************************************************************)
InitDpad ==
    /\ running = FALSE
    /\ mode \in {"ABSOLUTE", "RELATIVE"}
    /\ active_joint = number_of_joints \div 2
    /\ controller_buffer = BufferZero
    /\ memory \in KeysMemorySamples
    /\ arm_angles = <<0, 0, Deg(165), 0>>
    /\ arm_error = FALSE
    /\ link_up = TRUE
    /\ dashboard_lock = "free"
    /\ ctl = [t \in CtlIds |-> CtlUnborn]
    /\ handler = [h \in HandlerIds |-> HandlerIdle]
    /\ feed = ConstructedFeed
    /\ recordings = NoFile
    /\ controller = IndicateMode(ConnectedController, mode)
    /\ end_effector = NoEndEffector
    /\ sent = <<>>
    /\ audit = AuditZero

NextDpad == DpadPressed("cb") \/ NonblockingMove("cb") \/ DpadSave("cb")

SpecDpad == InitDpad /\ [][NextDpad]_vars

\* the step in which linear_move_func goes on after nonblocking_move returned
DpadReturns == handler["cb"].op = "dpad" /\ handler["cb"].pc = "dp_save"

(* C32: a directional-pad press edge sends exactly one fixed-magnitude      *)
(* linear relative move through nonblocking_move; a RELATIVE/LINEAR entry   *)
(* holding that move is appended if and only if the move succeeded and the  *)
(* mode is RELATIVE; on a failed move, or in ABSOLUTE mode, the memory is   *)
(* unchanged.                                                               *)
C32_DpadMove ==
    /\ [][handler["cb"].op = "dpad" /\ sent' # sent =>
            /\ handler["cb"].pc = "nb_send"
            /\ \E movement \in LinearMoves :
                  /\ handler["cb"].arg = movement
                  /\ sent' = Append(sent, [by |-> "cb", func |-> "move_linear_relative",
                                           value |-> movement, entry |-> 0])]_vars
    /\ [][handler'["cb"].op = "dpad" /\ handler'["cb"].pc = "nb_send" =>
            handler["cb"].pc = "idle"]_vars
    /\ [][handler["cb"].op = "dpad" /\ ~DpadReturns => memory' = memory]_vars
    /\ [][DpadReturns =>
            memory' = IF mode = "RELATIVE" /\ handler["cb"].result
                      THEN Append(memory, MemoryEntry("RELATIVE",
                                                      PyList(handler["cb"].arg), LINEAR))
                      ELSE memory]_vars

(***************************************************************************)
(* SpecEndEffector: the circle button with a gripper or a suction cup      *)
(* configured, and the save and mode edges                                 *)
(***************************************************************************)
InitEndEffector ==
    /\ running = FALSE
    /\ mode \in {"ABSOLUTE", "RELATIVE"}
    /\ active_joint = number_of_joints \div 2
    /\ controller_buffer = BufferZero
    /\ memory \in KeysMemorySamples
    /\ arm_angles = <<0, 0, Deg(165), 0>>
    /\ arm_error = FALSE
    /\ link_up = TRUE
    /\ dashboard_lock = "free"
    /\ ctl = [t \in CtlIds |-> CtlUnborn]
    /\ handler = [h \in HandlerIds |-> HandlerIdle]
    /\ feed = ConstructedFeed
    /\ recordings = NoFile
    /\ end_effector \in [kind : {"GRIPPER", "SUCTION_CUP"}, state : {0, 1},
                          actions : {<<>>}]
    /\ controller = IndicateMode(ControllerFor(end_effector.kind), mode)
    /\ sent = <<>>
    /\ audit = [AuditZero EXCEPT !.loaded = Len(memory)]

NextEndEffector ==
    \/ EndEffectorPressed("cb")
    \/ SavePressed("cb") \/ ModePressed("cb") \/ HandlerAcquire("cb") \/ SaveReturn("cb")

SpecEndEffector == InitEndEffector /\ [][NextEndEffector]_vars

\* the entries of type END_EFFECTOR among the entries the recorder appended
\* (audit.loaded entries were there at the start)
RecordedEndEffector ==
    {i \in DOMAIN memory : i > audit.loaded /\ memory[i].type = "END_EFFECTOR"}
\* the state the end effector had before its first hardware action
FirstState ==
    IF end_effector.actions[1] \in {"close_gripper", "suck"} THEN 0 ELSE 1

FaultyFeed ==
    StartedFeed \o [i \in 1..MaxFaults |-> FeedEntry("Error getting pose", "Robot")]

InitCancel ==
    /\ running = FALSE
    /\ mode \in {"ABSOLUTE", "RELATIVE"}
    /\ active_joint = number_of_joints \div 2
    /\ controller_buffer \in {BufferZero, HeldTrigger}
    /\ memory = <<>>
    /\ arm_angles = <<0, 0, Deg(240), 0>>
    /\ arm_error = FALSE
    /\ link_up = TRUE
    /\ dashboard_lock = "free"
    /\ \E k \in 0..(TicksPerRefresh - 1), before \in {StartedFeed, FaultyFeed} :
          /\ (controller_buffer = HeldTrigger \/ before = StartedFeed)
                 => k >= TicksPerRefresh - MaxTickMoves
          /\ feed = AddFeed(before, "Shutting down", "Recorder")
          /\ ctl = [t \in CtlIds |->
                      IF t = "ctl1" THEN [CtlUnborn EXCEPT !.pc = "tick", !.k = k]
                      ELSE CtlUnborn]
    /\ handler = [h \in HandlerIds |-> HandlerIdle]
    /\ recordings = NoFile
    /\ controller = ConnectedController
    /\ end_effector = NoEndEffector
    /\ sent = <<>>
    /\ audit = AuditZero

NextCancel == ControlThread("ctl1")

SpecCancel == InitCancel /\ [][NextCancel]_vars /\ WF_vars(ControlThread("ctl1"))

(* C34: cancellation is cooperative and terminates: once the running flag   *)
(* is false, and provided every in-flight motion command completes, the     *)
(* control thread eventually leaves its loop, after at most the remaining   *)
(* ticks of its current batch of 10 and one display refresh; it ends only   *)
(* at the test of its loop, never in the middle of a tick, and it runs no   *)
(* tick of a further batch.                                                 *)
C34_Cancellation ==
    /\ (~running) ~> (ctl["ctl1"].pc \in {"dead", "crashed"})
    /\ [][~running =>
            /\ (ctl'["ctl1"].pc = "dead" /\ ctl["ctl1"].pc # "dead")
                   => ctl["ctl1"].pc = "loop"
            /\ (ctl'["ctl1"].pc = "tick" /\ ctl["ctl1"].pc # "tick")
                   => /\ ctl["ctl1"].pc # "loop"
                      /\ ctl'["ctl1"].k = ctl["ctl1"].k + 1
                      /\ ctl'["ctl1"].k < TicksPerRefresh
            /\ ctl["ctl1"].pc \in {"pose_wait", "pose_read", "dangles_wait",
                                   "dangles_read", "loop"}
                   => ctl'["ctl1"].pc \notin {"pose_wait", "tick"}]_vars

\* the thread has ended at the test of its loop after a tick that moved the arm
C34_Witness ==
    /\ ~running
    /\ ctl["ctl1"].pc = "dead"
    /\ Len(sent) = 1
    /\ arm_angles = <<0, 0, Deg(245), 0>>

(***************************************************************************)
(* SpecCycle: the edges of R1 and L1 on the recorder as constructed        *)
(***************************************************************************)
InitCycle ==
    /\ running = FALSE
    /\ mode = "ABSOLUTE"
    /\ active_joint = number_of_joints \div 2
    /\ controller_buffer = BufferZero
    /\ memory = <<>>
    /\ arm_angles = <<0, 0, Deg(165), 0>>
    /\ arm_error = FALSE
    /\ link_up = TRUE
    /\ dashboard_lock = "free"
    /\ ctl = [t \in CtlIds |-> CtlUnborn]
    /\ handler = [h \in HandlerIds |-> HandlerIdle]
    /\ feed = ConstructedFeed
    /\ recordings = NoFile
    /\ controller = ConnectedController
    /\ end_effector = NoEndEffector
    /\ sent = <<>>
    /\ audit = AuditZero

NextCycle == CycleJointChanged("cb")

SpecCycle == InitCycle /\ [][NextCycle]_vars

\* record k of the history is a press edge of the forward (backward) button
ForwardPress(k) == audit.cycled[k].state /\ audit.cycled[k].op = 1
BackwardPress(k) == audit.cycled[k].state /\ audit.cycled[k].op = -1

(* C30: active_joint is in [0, N) in every reachable state: it starts at    *)
(* N div 2, a forward press moves it to the next joint and from N-1 to 0,   *)
(* a backward press to the previous joint and from 0 to N-1, a release      *)
(* leaves it, so N forward presses in a row, or a forward press followed by *)
(* a backward press, return it to the value it had before.                  *)
C30_ActiveJointRange ==
    LET N == number_of_joints
        hist == audit.cycled
    IN  /\ active_joint \in 0..(N - 1)
        /\ active_joint = (IF hist = <<>> THEN N \div 2 ELSE hist[Len(hist)].to)
        /\ hist # <<>> => hist[1].from = N \div 2
        /\ \A k \in DOMAIN hist :
              /\ k > 1 => hist[k].from = hist[k - 1].to
              /\ ForwardPress(k) =>
                    hist[k].to = (IF hist[k].from = N - 1 THEN 0 ELSE hist[k].from + 1)
              /\ BackwardPress(k) =>
                    hist[k].to = (IF hist[k].from = 0 THEN N - 1 ELSE hist[k].from - 1)
              /\ ~hist[k].state => hist[k].to = hist[k].from
              /\ (k + N - 1 \in DOMAIN hist /\ \A j \in k..(k + N - 1) : ForwardPress(j))
                    => hist[k + N - 1].to = hist[k].from
              /\ (k + 1 \in DOMAIN hist /\ ForwardPress(k) /\ BackwardPress(k + 1))
                    => hist[k + 1].to = hist[k].from

\* N forward presses in a row have brought active_joint round to N div 2
C30_Witness ==
    /\ Len(audit.cycled) = number_of_joints
    /\ \A k \in DOMAIN audit.cycled : ForwardPress(k)
    /\ audit.cycled[number_of_joints \div 2].to = 0
    /\ active_joint = number_of_joints \div 2
    /\ controller.light = active_joint

(***************************************************************************)
(* RobotRecorder.set_end_effector, run by the dashboard's worker thread:   *)
(* RobotInterface.set_end_effector, default_keymap, set_controls.           *)
(***************************************************************************)
EndEffectorTypes == {"NO_END_EFFECTOR", "GRIPPER", "SUCTION_CUP"}

\* RobotInterface.set_end_effector: the recorder's end effector is the new one
SetEndEffectorType(ee, kind) == [ee EXCEPT !.kind = kind]

SetEndEffector(h) ==
    /\ handler[h].pc = "idle"
    /\ audit.switches < MaxSwitches
    /\ \E kind \in EndEffectorTypes \ {end_effector.kind} :
          /\ end_effector' = SetEndEffectorType(end_effector, kind)
          /\ controller' = [controller EXCEPT
                               !.keymap = DefaultKeymap(@.version + 1, kind)]
    /\ handler' = [handler EXCEPT ![h] = Started("sc_install", "set_end_effector")]
    /\ audit' = [audit EXCEPT !.switches = @ + 1, !.raised = "none"]
    /\ UNCHANGED <<recorder_vars, arm_vars, dashboard_lock, ctl, sent, feed, recordings>>

(***************************************************************************)
(* SpecInstall: the keymap is installed again, by set_end_effector and by  *)
(* reconnect, on a started recorder while the controller's reader thread   *)
(* delivers the circle button's events                                     *)
(***************************************************************************)
InitInstall ==
    /\ running = TRUE
    /\ mode = "ABSOLUTE"
    /\ active_joint = number_of_joints \div 2
    /\ controller_buffer = BufferZero
    /\ memory = <<>>
    /\ arm_angles = <<0, 0, Deg(165), 0>>
    /\ arm_error = FALSE
    /\ link_up = TRUE
    /\ dashboard_lock = "free"
    /\ ctl = [t \in CtlIds |-> IF t = "ctl1" THEN [CtlUnborn EXCEPT !.pc = "loop"]
                               ELSE CtlUnborn]
    /\ handler = [h \in HandlerIds |-> HandlerIdle]
    /\ feed = StartedFeed
    /\ recordings = NoFile
    /\ end_effector \in [kind : {"GRIPPER", "SUCTION_CUP"}, state : {0}, actions : {<<>>}]
    /\ controller = ControllerFor(end_effector.kind)
    /\ sent = <<>>
    /\ audit = AuditZero

NextInstall == SetEndEffector("dash") \/ Reconnect \/ EndEffectorPressed("cb")

SpecInstall == InitInstall /\ [][NextInstall]_vars

\* the reader thread has called the circle slot's callback, which has acted
\* on the end effector
EventDelivered == end_effector'.actions # end_effector.actions
\* the fourteen slots of the handle hold the callbacks of one keymap
OneKeymap(c) == \A j, k \in DOMAIN KeymapFields : c.installed[j] = c.installed[k]

(* C37: installing the keymap is atomic for the controller's events: no     *)
(* event is delivered while only some of the fourteen slots hold the        *)
(* callbacks of the keymap being installed, so the callback an event runs   *)
(* belongs to the one keymap that all slots hold, and the circle button     *)
(* acts on the end effector the recorder is set to (also when reconnect or  *)
(* set_end_effector installs the keymap again).                             *)
C37_KeymapAtomic ==
    [][EventDelivered => OneKeymap(controller) /\ CircleBound = end_effector.kind]_vars

(***************************************************************************)
(* SpecLock: the threads that take dashboard_lock on a started recorder:   *)
(* the control thread (angles of every tick, pose and angles of the        *)
(* refresh), the controller's thread (the save button: pose) and the       *)
(* dashboard (the status poll: robot_is_alive; the clear-error button:     *)
(* error_id, then clear_error's with block).                               *)
(* Every thread goes on when it can (weak fairness), and a thread blocked  *)
(* in the lock's acquire gets the lock if it is released again and again   *)
(* (strong fairness of the acquisitions).                                  *)
(***************************************************************************)
CtlWaitPcs == {"angles_wait", "pose_wait", "dangles_wait"}
CtlHoldPcs == {"angles_read", "pose_read", "dangles_read"}
HandlerWaitPcs ==
    {"nb_err_wait", "nb_log1_wait", "nb_log2_wait", "nb_clear_wait", "rp_log3_wait",
     "sv_pose_wait", "alive_wait", "rc_close_wait", "rc_init_wait", "st_close_wait"}
HandlerHoldPcs ==
    {"nb_err_read", "nb_log1_read", "nb_log2_read", "nb_clear", "rp_log3_read",
     "sv_pose_read", "alive_read", "rc_close", "rc_init", "st_close"}

InitLock ==
    /\ running = TRUE
    /\ mode = "ABSOLUTE"
    /\ active_joint = number_of_joints \div 2
    /\ controller_buffer = BufferZero
    /\ memory = <<>>
    /\ arm_angles = <<0, 0, Deg(165), 0>>
    /\ arm_error = FALSE
    /\ link_up = TRUE
    /\ dashboard_lock = "free"
    /\ ctl = [t \in CtlIds |-> IF t = "ctl1" THEN [CtlUnborn EXCEPT !.pc = "loop"]
                               ELSE CtlUnborn]
    /\ handler = [h \in HandlerIds |-> HandlerIdle]
    /\ feed = StartedFeed
    /\ recordings = NoFile
    /\ controller = ConnectedController
    /\ end_effector = NoEndEffector
    /\ sent = <<>>
    /\ audit = AuditZero

NextLock ==
    \/ ControlThread("ctl1")
    \/ SavePressed("cb") \/ HandlerAcquire("cb") \/ SaveReturn("cb")
    \/ AlivePoll \/ AliveReturn \/ ClearError

SpecLock ==
    /\ InitLock /\ [][NextLock]_vars
    /\ WF_vars(ControlThread("ctl1"))
    /\ WF_vars(SaveReturn("cb"))
    /\ WF_vars(AliveReturn \/ NbLogReturn("dash") \/ NbClearReturn("dash"))
    /\ SF_vars(CtlAnglesAcquire("ctl1")) /\ SF_vars(CtlRefreshAcquire("ctl1"))
    /\ SF_vars(HandlerAcquire("cb")) /\ SF_vars(HandlerAcquire("dash"))

\* thread t is blocked in the lock's acquire; thread t is inside a with block
Waiting(t) ==
    IF t \in CtlIds THEN ctl[t].pc \in CtlWaitPcs ELSE handler[t].pc \in HandlerWaitPcs
InWith(t) ==
    IF t \in CtlIds THEN ctl[t].pc \in CtlHoldPcs ELSE handler[t].pc \in HandlerHoldPcs

InitIndicators ==
    /\ running = TRUE
    /\ mode \in {"ABSOLUTE", "RELATIVE"}
    /\ active_joint = number_of_joints \div 2
    /\ controller_buffer = BufferZero
    /\ memory = <<>>
    /\ arm_angles = <<0, 0, Deg(165), 0>>
    /\ arm_error = FALSE
    /\ link_up = TRUE
    /\ dashboard_lock = "free"
    /\ ctl = [t \in CtlIds |-> IF t = "ctl1" THEN [CtlUnborn EXCEPT !.pc = "loop"]
                               ELSE CtlUnborn]
    /\ handler = [h \in HandlerIds |-> HandlerIdle]
    /\ feed = StartedFeed
    /\ recordings = NoFile
    /\ controller = IndicateMode(ConnectedController, mode)
    /\ end_effector = NoEndEffector
    /\ sent = <<>>
    /\ audit = AuditZero

NextIndicators ==
    \/ ModePressed("cb") \/ HandlerAcquire("cb") \/ SaveReturn("cb")
    \/ CycleJointChanged("cb")
    \/ Reconnect

SpecIndicators == InitIndicators /\ [][NextIndicators]_vars

\* no handler is running: every toggle, cycle and reconnect has returned
Settled == \A h \in HandlerIds : handler[h].pc = "idle"

(* C39: the controller's indicators agree with the recorder's state after   *)
(* any sequence of mode toggles, joint cycles and reconnects: the mode LED  *)
(* is on exactly when the mode is RELATIVE and the light bar shows the hue  *)
(* of the active joint, also on the new handle a reconnect has made.        *)
C39_IndicatorsAgree ==
    (Settled /\ controller.open /\ controller.states) =>
        /\ controller.mic_led <=> mode = "RELATIVE"
        /\ controller.light = active_joint

(***************************************************************************)
(* A reconnect that fails: connect_robot raises again what it caught,      *)
(* init_robot's exchange fails on the reopened link, or connect_controller *)
(* gives up after its retries.  Nothing in reconnect catches the           *)
(* exception, so the statements after the failing call do not run.         *)
(***************************************************************************)
\* the step in which the exception leaves reconnect
ReconnectFails ==
    /\ InReconnect
    /\ handler'["dash"].pc = "idle"
    /\ audit'.raised # "none"
\* reconnect has failed and the button has not been pressed again
ReconnectFailed == handler["dash"].pc = "idle" /\ audit.raised # "none"
\* thread t executes a part of a control tick: any step of run but the one
\* that finds the flag false and leaves the loop
ExecutesTick(t) ==
    /\ ctl'[t] # ctl[t]
    /\ ~(ctl[t].pc = "loop" /\ ctl'[t].pc = "dead")

(* C40: when reconnect() fails because the robot transport or the          *)
(* controller cannot be reopened, the exception leaves reconnect with      *)
(* running false and no new control thread started, the memory and the     *)
(* feed keep what they held, and from then on no thread executes a control *)
(* tick on the half-reconnected recorder.                                  *)
C40_FailedReconnect ==
    [][/\ ReconnectFails =>
             /\ ~running'
             /\ \A t \in CtlIds : ctl[t].pc = "unborn" => ctl'[t].pc = "unborn"
             /\ IsPrefix(memory, memory') /\ IsPrefix(feed, feed')
       /\ ReconnectFailed =>
             /\ ~running'
             /\ IsPrefix(memory, memory') /\ IsPrefix(feed, feed')
             /\ \A t \in CtlIds : ~ExecutesTick(t)]_vars

=============================================================================
